---------------------------- MODULE Spec2Model ----------------------------
(***************************************************************************)
(* A model of nova/network/quantumv2/api.py: the quantum v2 network API    *)
(* of the compute service.  The state is the remote quantum service (its   *)
(* ports, networks, security groups and extension list), the API object    *)
(* (its extension cache), the instance store (the cached network info of   *)
(* the instance) and the position, inputs and locals of one                *)
(* allocate_for_instance call.  Every remote call that changes the port    *)
(* set is one step, and it either takes effect or fails without effect.    *)
(* Read-only lookups made before the per-network loop are taken to         *)
(* succeed.                                                                *)
(***************************************************************************)
EXTENDS Integers, Sequences, FiniteSets, TLC

VARIABLES
    \* the remote quantum service
    remote_ports,           \* port id -> port record
    user_security_groups,   \* the tenant's security groups, in list order
    remote_extensions,      \* the extension names list_extensions returns
    \* the API object
    extensions,             \* self.extensions (the names cached)
    last_quantum_extension_sync,
    \* the instance store
    info_cache,             \* instance['info_cache']['network_info']
    \* the arguments of the call
    instance, requested_networks, hypervisor_macs, security_groups,
    \* the locals of allocate_for_instance
    pc, ports, fixed_ips, net_ids, nets, security_group_ids, available_macs,
    touched_port_ids, created_port_ids, idx, exc,
    \* what the caller receives
    result,
    \* history: the create, update and delete calls issued, the exception the
    \* per-network step raised, the failures logged by LOG.exception
    calls, raised, logged,
    \* the remote service: the number of ports created so far, the floating
    \* IPs
    port_seq, floating_ips,
    \* the local nw_info of allocate_for_instance (line 296)
    nw_info,
    \* the operations on the instance: the one running or last run, how many
    \* were started, the ports the operation deleted, and the allocation that
    \* came before a deallocation
    op, ncalls, deleted, before,
    \* the clock, the list_extensions calls made, and the threads that use
    \* the API object: where each stands, the list it fetched, what it read
    now, list_calls, tpc, tlist, seen,
    \* the last floating-IP call with nothing changed since: its name, the
    \* floating and fixed address asked for, the floating IPs before it, what
    \* it raised, the calls it issued
    fip_call,
    \* the external networks of the remote service (the floating IP pools)
    external_networks,
    \* the last call of validate_networks or a migration: its name, its
    \* argument, the remote ports before it, what it raised, the port calls
    \* it issued
    api_call,
    \* the security group notifications the last operation on the instance
    \* has triggered
    notified

vars == << remote_ports, user_security_groups, remote_extensions, extensions,
           last_quantum_extension_sync, info_cache, instance,
           requested_networks, hypervisor_macs, security_groups, pc, ports,
           fixed_ips, net_ids, nets, security_group_ids, available_macs,
           touched_port_ids, created_port_ids, idx, exc, result, calls,
           raised, logged, port_seq, floating_ips, nw_info, op, ncalls,
           deleted, before, now, list_calls, tpc, tlist, seen, fip_call,
           external_networks, api_call, notified >>

lifeVars == << op, ncalls, deleted, before >>
extVars == << now, list_calls, tpc, tlist, seen >>
fipVars == << floating_ips, fip_call, external_networks >>
callVars == << api_call, notified >>

remoteVars == << remote_ports, user_security_groups, remote_extensions >>
inputVars  == << instance, requested_networks, hypervisor_macs,
                 security_groups >>
localVars  == << ports, fixed_ips, net_ids, nets, security_group_ids,
                 available_macs, touched_port_ids, created_port_ids, idx,
                 exc >>

---------------------------------------------------------------------------
(* Bounds of the model.                                                    *)

\* the longest requested_networks list
MaxReq == 2
\* the longest security_groups list of SpecSG
MaxSG == 2
\* the most security groups the tenant has in SpecSG
MaxGroups == 3

---------------------------------------------------------------------------
(* Values.                                                                 *)

None == "None"

\* constants.PORTBINDING_EXT
PORTBINDING_EXT == "Port Binding"

\* The networks of the remote service.  n1 and n2 are private networks of
\* tenant T, n3 is shared, n4 is a private network of another tenant.  n2 has
\* no subnet, n3 has port security disabled, n1 does not report the
\* port-security attribute.
Networks ==
    [ n1 |-> [id |-> "n1", name |-> "net1", tenant_id |-> "T",
              shared |-> FALSE, subnets |-> TRUE,
              port_security_enabled |-> "absent"],
      n2 |-> [id |-> "n2", name |-> "net2", tenant_id |-> "T",
              shared |-> FALSE, subnets |-> FALSE,
              port_security_enabled |-> "true"],
      n3 |-> [id |-> "n3", name |-> "net3", tenant_id |-> "O",
              shared |-> TRUE, subnets |-> TRUE,
              port_security_enabled |-> "false"],
      n4 |-> [id |-> "n4", name |-> "net4", tenant_id |-> "O",
              shared |-> FALSE, subnets |-> TRUE,
              port_security_enabled |-> "true"] ]

NetIds == DOMAIN Networks

\* The set of sequences that list the elements of S once each.
Perms(S) ==
    { s \in [1..Cardinality(S) -> S] :
        \A i, j \in 1..Cardinality(S) : i # j => s[i] # s[j] }

\* The sequences over S of length at most n.
SeqUpTo(S, n) == UNION { [1..k -> S] : k \in 0..n }

Range(seq) == { seq[i] : i \in DOMAIN seq }

\* dict.get(key): the value, or None
Get(dict, key) == IF key \in DOMAIN dict THEN dict[key] ELSE None

\* dict[key] = value
Put(dict, key, value) ==
    [k \in DOMAIN dict \cup {key} |-> IF k = key THEN value ELSE dict[k]]

EmptyDict == [k \in {} |-> None]

---------------------------------------------------------------------------
(* _ensure_requested_network_ordering                                      *)

\* list.index(v): the first position of v
Index(preferred, v) ==
    CHOOSE i \in DOMAIN preferred :
        preferred[i] = v /\ \A j \in 1..(i - 1) : preferred[j] # v

\* insert x into the sorted sequence after every element whose key is not
\* greater (list.sort is stable)
RECURSIVE InsertByKey(_, _, _, _)
InsertByKey(sorted, x, field, preferred) ==
    IF sorted = << >> THEN << x >>
    ELSE IF Index(preferred, Head(sorted)[field]) <= Index(preferred, x[field])
         THEN << Head(sorted) >>
              \o InsertByKey(Tail(sorted), x, field, preferred)
         ELSE << x >> \o sorted

RECURSIVE SortByKey(_, _, _)
SortByKey(unordered, field, preferred) ==
    IF unordered = << >> THEN << >>
    ELSE InsertByKey(
             SortByKey(SubSeq(unordered, 1, Len(unordered) - 1),
                       field, preferred),
             unordered[Len(unordered)], field, preferred)

\* accessor is the field the lambda reads: x['id'] or x['network_id']
ensure_requested_network_ordering(field, unordered, preferred) ==
    IF preferred # << >>
    THEN SortByKey(unordered, field, preferred)
    ELSE unordered

---------------------------------------------------------------------------
(* _get_available_networks                                                 *)

\* what list_networks may return for the search options: the matching
\* networks in any order
list_networks(tenant, shared, ids) ==
    LET match == { n \in NetIds :
                     /\ Networks[n].shared = shared
                     /\ (~shared => Networks[n].tenant_id = tenant)
                     /\ (ids # << >> => n \in Range(ids)) }
    IN  { [i \in DOMAIN p |-> Networks[p[i]]] : p \in Perms(match) }

\* the lists _get_available_networks may return
get_available_networks(project_id, ids) ==
    { ensure_requested_network_ordering("id", private \o public, ids) :
        private \in list_networks(project_id, FALSE, ids),
        public \in list_networks(project_id, TRUE, ids) }

---------------------------------------------------------------------------
(* The inputs of allocate_for_instance and the initial remote state.       *)

\* macs=None is the set that holds None alone
NoMacs == {None}

\* the two ports that exist before the call: P1 on n1 belongs to tenant T,
\* P2 on the shared network n3 was made by another tenant
PrePorts(p1_device) ==
    [ P1 |-> [network_id |-> "n1", mac_address |-> "m1", tenant_id |-> "T",
              device_id |-> p1_device, device_owner |-> None,
              fixed_ips |-> << >>, security_groups |-> << >>,
              host_id |-> None],
      P2 |-> [network_id |-> "n3", mac_address |-> "m2", tenant_id |-> "O",
              device_id |-> None, device_owner |-> None,
              fixed_ips |-> << >>, security_groups |-> << >>,
              host_id |-> None] ]

\* the ids quantum gives to the ports it creates, in this order
FreshPortIds ==
    << "c1", "c2", "c3", "c4", "c5", "c6", "c7", "c8", "c9" >>

\* the entries of requested_networks: (network_id, fixed_ip, port_id)
ReqEntries ==
    { << "n1", None, None >>, << "n1", "ipA", None >>,
      << "n1", "ipB", None >>, << "n2", None, None >>,
      << "n3", "ipA", None >>, << "n4", None, None >>,
      << None, None, "P1" >>, << None, None, "P2" >> }

ReqChoices == SeqUpTo(ReqEntries, MaxReq)

MacChoices == { NoMacs, {}, {"m1"}, {"m3"}, {"m1", "m3"} }

\* the tenant's security groups in Spec: "web" names two groups, "g4" is the
\* name of g3 and the id of another group
TenantGroups ==
    << [id |-> "g1", name |-> "web"], [id |-> "g2", name |-> "web"],
       [id |-> "g3", name |-> "g4"], [id |-> "g4", name |-> "db"] >>

SGChoices ==
    { << >>, << "db" >>, << "g4" >>, << "g1" >>, << "web" >>, << "zz" >>,
      << "zz", "web" >>, << "web", "zz" >>, << "db", "g4" >>,
      << "db", "web" >>, << "db", "zz" >> }

Instances ==
    { [uuid |-> "A", project_id |-> p, host |-> "h1",
       availability_zone |-> "nova"] : p \in {"T", ""} }

\* a record of the network info model (network_model.VIF)
VIF(id, address, network_id, label) ==
    [id |-> id, address |-> address, network_id |-> network_id,
     label |-> label]

NoResult == [kind |-> "none", exc |-> None, nw_info |-> << >>]
Raise(e) == [kind |-> "raise", exc |-> e, nw_info |-> << >>]
Return(info) == [kind |-> "return", exc |-> None, nw_info |-> info]

---------------------------------------------------------------------------
(* allocate_for_instance, lines 144-181: the requested networks.           *)

\* PortUsable with the MAC check of lines 166-167 left out
PortUsable_Unchecked(port, macs) == TRUE

\* lines 166-167: the hypervisor can use the port's MAC address
PortUsable(port, macs) ==
    macs = NoMacs \/ port.mac_address \in macs

\* one entry of requested_networks applied to the locals; st.err is the
\* exception raised, if any
ParseEntry(st, entry, macs, rports) ==
    LET network_id == entry[1]
        fixed_ip   == entry[2]
        port_id    == entry[3]
    IN  IF port_id # None
        THEN IF port_id \notin DOMAIN rports
             THEN \* line 165: show_port answers 404
                  [st EXCEPT !.err = "QuantumClientException:show_port"]
             ELSE
             LET port == rports[port_id]
             IN  IF ~PortUsable(port, macs)
                 THEN [st EXCEPT !.err = "PortNotUsable"]
                 ELSE [st EXCEPT
                         !.available_macs =
                             IF macs # NoMacs
                             THEN @ \ {port.mac_address} ELSE @,
                         !.ports = Put(@, port.network_id, port_id),
                         !.net_ids = Append(@, port.network_id)]
        ELSE LET st1 == IF fixed_ip # None /\ network_id # None
                        THEN [st EXCEPT
                                !.fixed_ips = Put(@, network_id, fixed_ip)]
                        ELSE st
             IN  IF network_id # None
                 THEN [st1 EXCEPT !.net_ids = Append(@, network_id)]
                 ELSE st1

RECURSIVE ParseFrom(_, _, _, _)
ParseFrom(st, reqs, macs, rports) ==
    IF reqs = << >> \/ st.err # None THEN st
    ELSE ParseFrom(ParseEntry(st, Head(reqs), macs, rports), Tail(reqs),
                   macs, rports)

\* the locals after the loop over requested_networks
ParseRequestedNetworks(reqs, macs, rports) ==
    ParseFrom([ports |-> EmptyDict, fixed_ips |-> EmptyDict,
               net_ids |-> << >>, available_macs |-> macs, err |-> None],
              reqs, macs, rports)

---------------------------------------------------------------------------
(* allocate_for_instance, lines 185-218: the security groups.              *)

\* the inner loop over user_security_groups for one requested entry
RECURSIVE ScanGroups(_, _, _, _)
ScanGroups(groups, security_group, name_match, uuid_match) ==
    IF groups = << >>
    THEN [err |-> None, name_match |-> name_match,
          uuid_match |-> uuid_match]
    ELSE LET g == Head(groups)
         IN  IF g.name = security_group /\ name_match # None
             THEN [err |-> "NoUniqueMatch", name_match |-> name_match,
                   uuid_match |-> uuid_match]
             ELSE ScanGroups(Tail(groups), security_group,
                      IF g.name = security_group THEN g.id ELSE name_match,
                      IF g.id = security_group THEN g.id ELSE uuid_match)

\* ResolveGroup with the unmatched entry appended as it is (the append of
\* line 214 reached) instead of raising
ResolveGroup_Unmatched(groups, security_group) ==
    LET m == ScanGroups(groups, security_group, None, None)
    IN  IF m.err # None THEN [err |-> m.err, id |-> None]
        ELSE IF m.name_match # None
        THEN [err |-> None, id |-> m.name_match]
        ELSE [err |-> None, id |-> m.uuid_match]

\* ResolveGroup with the uuid match tried before the name match
ResolveGroup_UuidFirst(groups, security_group) ==
    LET m == ScanGroups(groups, security_group, None, None)
    IN  IF m.err # None THEN [err |-> m.err, id |-> None]
        ELSE IF m.name_match = None /\ m.uuid_match = None
        THEN [err |-> "SecurityGroupNotFound", id |-> None]
        ELSE IF m.uuid_match # None
        THEN [err |-> None, id |-> m.uuid_match]
        ELSE [err |-> None, id |-> m.name_match]

\* the id appended for one requested entry, or the exception raised
ResolveGroup(groups, security_group) ==
    LET m == ScanGroups(groups, security_group, None, None)
    IN  IF m.err # None THEN [err |-> m.err, id |-> None]
        ELSE IF m.name_match = None /\ m.uuid_match = None
        THEN [err |-> "SecurityGroupNotFound", id |-> None]
        ELSE IF m.name_match # None
        THEN [err |-> None, id |-> m.name_match]
        ELSE [err |-> None, id |-> m.uuid_match]

RECURSIVE ResolveSecurityGroups(_, _, _)
ResolveSecurityGroups(groups, sgs, ids) ==
    IF sgs = << >> THEN [err |-> None, ids |-> ids]
    ELSE LET r == ResolveGroup(groups, Head(sgs))
         IN  IF r.err # None THEN [err |-> r.err, ids |-> ids]
             ELSE ResolveSecurityGroups(groups, Tail(sgs),
                                        Append(ids, r.id))

---------------------------------------------------------------------------
(* The remote port calls.                                                  *)

\* update_port: the fields of the request body replace the port's
UpdatePort(rports, port_id, body) ==
    [rports EXCEPT ![port_id] =
        [f \in DOMAIN @ |-> IF f \in DOMAIN body THEN body[f] ELSE @[f]]]

\* the id quantum gives the next port it creates, after seq others: an id is
\* never given twice
NewPortId(seq) == FreshPortIds[seq + 1]

\* create_port: quantum generates the MAC address unless the body pins one
CreatePort(rports, seq, body) ==
    Put(rports, NewPortId(seq),
        [network_id |-> body["network_id"],
         mac_address |-> IF "mac_address" \in DOMAIN body
                         THEN body["mac_address"] ELSE "gen",
         tenant_id |-> body["tenant_id"],
         device_id |-> body["device_id"],
         device_owner |-> body["device_owner"],
         fixed_ips |-> IF "fixed_ips" \in DOMAIN body
                       THEN body["fixed_ips"] ELSE << >>,
         security_groups |-> IF "security_groups" \in DOMAIN body
                             THEN body["security_groups"] ELSE << >>,
         host_id |-> IF "host_id" \in DOMAIN body
                     THEN body["host_id"] ELSE None])

\* delete_port
DeletePort(rports, port_id) ==
    [p \in DOMAIN rports \ {port_id} |-> rports[p]]

\* list_ports(tenant_id=..., device_id=...): the matching ports, each with
\* its id, in any order
list_ports(rports, tenant_id, device_id) ==
    LET match == { p \in DOMAIN rports :
                     /\ rports[p].tenant_id = tenant_id
                     /\ rports[p].device_id = device_id }
    IN  { [i \in DOMAIN s |->
             [id |-> s[i], network_id |-> rports[s[i]].network_id,
              mac_address |-> rports[s[i]].mac_address]] :
          s \in Perms(match) }

\* an entry of the history of calls
Call(name, port_id, ok, phase) ==
    [op |-> name, port |-> port_id, ok |-> ok, phase |-> phase]

---------------------------------------------------------------------------
(* _build_network_info_model with the networks given (lines 823-931).      *)

\* the name of the network the port is on (the loop of lines 873-876)
NetworkName(port, networks) ==
    LET i == CHOOSE i \in DOMAIN networks :
                 /\ networks[i].id = port.network_id
                 /\ \A j \in 1..(i - 1) : networks[j].id # port.network_id
    IN  networks[i].name

\* lines 855-862: the record made from a cached interface, field by field
CachedVIF(iface) ==
    VIF(iface.id, iface.address, iface.network_id, iface.label)

\* the refresh_cache decorator of get_instance_nw_info: the value returned
\* becomes the instance's cached network info
refresh_cache(cached, returned) == returned

\* build_network_info_model keeping only the cached interfaces that are on
\* one of the networks given
build_network_info_model_Filtered(listing, networks, cached) ==
    LET ids == [i \in DOMAIN networks |-> networks[i].id]
        kept == SelectSeq(listing, LAMBDA p : p.network_id \in Range(ids))
        ordered == ensure_requested_network_ordering("network_id", kept, ids)
    IN  SelectSeq(cached, LAMBDA iface : iface.network_id \in Range(ids)) \o
        [i \in DOMAIN ordered |->
            VIF(ordered[i].id, ordered[i].mac_address,
                ordered[i].network_id, NetworkName(ordered[i], networks))]

\* listing is what list_ports returned, cached is the instance's
\* info_cache; the cached interfaces come first (lines 855-862)
build_network_info_model(listing, networks, cached) ==
    LET ids == [i \in DOMAIN networks |-> networks[i].id]
        kept == SelectSeq(listing, LAMBDA p : p.network_id \in Range(ids))
        ordered == ensure_requested_network_ordering("network_id", kept, ids)
    IN  [i \in DOMAIN cached |-> CachedVIF(cached[i])] \o
        [i \in DOMAIN ordered |->
            VIF(ordered[i].id, ordered[i].mac_address,
                ordered[i].network_id, NetworkName(ordered[i], networks))]

\* the ids of the networks of a snapshot's records
SnapshotNetworks(snapshot) ==
    { snapshot[i].network_id : i \in DOMAIN snapshot }

\* lines 302-304: the records of the ports made or touched in this run
ReturnedInfo(info, created, touched) ==
    SelectSeq(info, LAMBDA vif : vif.id \in Range(created \o touched))

\* line 95: the timestamp of an API object that never synced; None and 0 are
\* the values "not self.last_quantum_extension_sync" holds for
NeverSynced == 0

\* the threads that use the API object
Threads == {"t1", "t2"}

\* no call made yet
NoApiCall ==
    [op |-> None, args |-> << >>, before |-> EmptyDict, raised |-> None,
     calls |-> << >>]

\* no floating-IP call made yet
NoFipCall ==
    [op |-> None, address |-> None, fixed |-> None, pool |-> None,
     before |-> EmptyDict, raised |-> None, calls |-> << >>]

\* nothing read yet
NoSeen ==
    [extensions |-> {}, sync |-> NeverSynced, during |-> {},
     read |-> FALSE]

\* no allocation to compare a later one with
NoRound == [stage |-> 0, requested |-> << >>, networks |-> {}]

\* no operation has run on the instance, no thread is inside the API object,
\* quantum has created no port and holds no floating IP
InitRest ==
    /\ port_seq = 0
    /\ floating_ips = EmptyDict
    /\ fip_call = NoFipCall
    /\ external_networks = {}
    /\ api_call = NoApiCall
    /\ notified = << >>
    /\ nw_info = << >>
    /\ op = None
    /\ ncalls = 0
    /\ deleted = {}
    /\ before = NoRound
    /\ now = 1
    /\ list_calls = 0
    /\ tpc = [t \in Threads |-> "idle"]
    /\ tlist = [t \in Threads |-> {}]
    /\ seen = NoSeen

---------------------------------------------------------------------------
(* The initial state: the API object is new, the instance has either no    *)
(* port or port P1, attached and cached by an earlier allocation.          *)

Init ==
    /\ \E d \in {None, "A"} :
         /\ remote_ports = PrePorts(d)
         /\ info_cache = IF d = "A"
                         THEN << VIF("P1", "m1", "n1", "net1") >>
                         ELSE << >>
    /\ user_security_groups = TenantGroups
    /\ remote_extensions \in { {}, {PORTBINDING_EXT} }
    /\ extensions = {}
    /\ last_quantum_extension_sync = NeverSynced
    /\ instance = [uuid |-> "A", project_id |-> "T", host |-> "h1",
                   availability_zone |-> "nova"]
    /\ requested_networks = << >>
    /\ hypervisor_macs = NoMacs
    /\ security_groups = << >>
    /\ pc = "idle"
    /\ ports = EmptyDict
    /\ fixed_ips = EmptyDict
    /\ net_ids = << >>
    /\ nets = << >>
    /\ security_group_ids = << >>
    /\ available_macs = NoMacs
    /\ touched_port_ids = << >>
    /\ created_port_ids = << >>
    /\ idx = 0
    /\ exc = None
    /\ result = NoResult
    /\ calls = << >>
    /\ raised = None
    /\ logged = 0
    /\ InitRest

---------------------------------------------------------------------------
(* allocate_for_instance.                                                  *)

\* lines 292-293, 344-345, 366-367: the members refresh (lines 532-540) and
\* the add or remove refresh (lines 518-530) are triggered, in this order
Triggered(event) == << "security_group_members", event >>

\* EmptyProject with the test of line 154 left out
EmptyProject_Unchecked(inst) == FALSE

\* line 154: not instance['project_id']
EmptyProject(inst) == inst.project_id = ""

\* lines 144-181: the call is entered with its arguments, its locals are
\* new, the project id is checked and the requested networks are read
AllocStart(inst, reqs, macs, sgs) ==
    /\ instance' = inst
    /\ requested_networks' = reqs
    /\ hypervisor_macs' = macs
    /\ security_groups' = sgs
    /\ IF EmptyProject(inst)
       THEN /\ result' = Raise("InvalidInput")
            /\ pc' = "done"
            /\ ports' = EmptyDict
            /\ fixed_ips' = EmptyDict
            /\ net_ids' = << >>
            /\ available_macs' = NoMacs
       ELSE LET st == ParseRequestedNetworks(reqs, macs, remote_ports)
            IN  /\ ports' = st.ports
                /\ fixed_ips' = st.fixed_ips
                /\ net_ids' = st.net_ids
                /\ available_macs' = st.available_macs
                /\ IF st.err # None
                   THEN result' = Raise(st.err) /\ pc' = "done"
                   ELSE result' = NoResult /\ pc' = "resolve"
    /\ nets' = << >>
    /\ security_group_ids' = << >>
    /\ touched_port_ids' = << >>
    /\ created_port_ids' = << >>
    /\ idx' = 0
    /\ exc' = None
    /\ calls' = << >>
    /\ raised' = None
    /\ logged' = 0
    /\ nw_info' = << >>
    /\ notified' = << >>
    /\ op' = "allocate"
    /\ ncalls' = ncalls + 1
    /\ deleted' = {}
    /\ before' = IF /\ before.stage = 2 /\ op = "deallocate"
                    /\ before.requested = reqs
                 THEN [before EXCEPT !.stage = 3]
                 ELSE NoRound
    /\ UNCHANGED << remoteVars, port_seq, extensions,
                    last_quantum_extension_sync, info_cache, extVars,
                    fipVars, api_call >>

\* the first call on a new instance, with any arguments
AllocEnter ==
    /\ pc = "idle"
    /\ \E inst \in Instances, reqs \in ReqChoices, macs \in MacChoices,
          sgs \in SGChoices :
         AllocStart(inst, reqs, macs, sgs)

\* where the loop over nets stands after i - 1 networks
LoopPc(i, networks) == IF i > Len(networks) THEN "finish" ELSE "loop"

\* lines 183-220: the networks are resolved, then the security groups
AllocResolve ==
    /\ pc = "resolve"
    /\ \E available \in get_available_networks(instance.project_id, net_ids) :
         LET r == ResolveSecurityGroups(user_security_groups,
                                        security_groups, << >>)
         IN  /\ nets' = available
             /\ security_group_ids' = r.ids
             /\ IF r.err # None
                THEN result' = Raise(r.err) /\ pc' = "done" /\ idx' = idx
                ELSE /\ result' = result
                     /\ idx' = 1
                     /\ pc' = LoopPc(1, available)
    /\ UNCHANGED << remoteVars, extensions, last_quantum_extension_sync,
                    info_cache, inputVars, ports, fixed_ips, net_ids,
                    available_macs, touched_port_ids, created_port_ids, exc,
                    calls, raised, logged, port_seq, nw_info, lifeVars,
                    extVars, fipVars, callVars >>

\* lines 229-231: security groups can be applied to the network
SecurityGroupApplicable(network) ==
    /\ network.subnets
    /\ network.port_security_enabled # "false"

\* lines 236-237 and 322-329: the body both paths start from
\* PortReqBody that also sends the security groups of the call
PortReqBody_WithGroups(inst, exts) ==
    [f \in {"device_id", "device_owner", "security_groups"} |->
        CASE f = "device_id" -> inst.uuid
          [] f = "device_owner" -> "compute:nova"
          [] f = "security_groups" -> security_group_ids]

PortReqBody(inst, exts) ==
    [f \in {"device_id", "device_owner"}
           \cup (IF PORTBINDING_EXT \in exts THEN {"host_id"} ELSE {}) |->
        CASE f = "device_id" -> inst.uuid
          [] f = "device_owner" -> "compute:nova"
          [] f = "host_id" -> inst.host]

\* CreateReqBody with the requested fixed IP left out
CreateReqBody_NoFixedIp(inst, exts, network_id, fixed_ip, sg_ids) ==
    PortReqBody(inst, exts)
      @@ ("network_id" :> network_id)
      @@ ("tenant_id" :> inst.project_id)
      @@ (IF sg_ids # << >>
          THEN "security_groups" :> sg_ids ELSE EmptyDict)

\* lines 250-259: what the create path adds to the body, the MAC apart
CreateReqBody(inst, exts, network_id, fixed_ip, sg_ids) ==
    PortReqBody(inst, exts)
      @@ (IF fixed_ip # None
          THEN "fixed_ips" :> << fixed_ip >> ELSE EmptyDict)
      @@ ("network_id" :> network_id)
      @@ ("tenant_id" :> inst.project_id)
      @@ (IF sg_ids # << >>
          THEN "security_groups" :> sg_ids ELSE EmptyDict)

\* RollbackPc with the call going on to line 292 after the compensation
RollbackPc_ThenFinish(touched, created) ==
    IF touched # << >> THEN "rollback_touched"
    ELSE IF created # << >> THEN "rollback_created"
    ELSE "finish"

\* where the except clause of line 268 starts: the touched ports, then the
\* created ports, then the re-raise
RollbackPc(touched, created) ==
    IF touched # << >> THEN "rollback_touched"
    ELSE IF created # << >> THEN "rollback_created"
    ELSE "done"

\* the try body raised e: save_and_reraise_exception keeps it
TryRaise(e, issued) ==
    /\ exc' = e
    /\ raised' = e
    /\ idx' = 1
    /\ pc' = RollbackPc(touched_port_ids, created_port_ids)
    /\ result' = IF RollbackPc(touched_port_ids, created_port_ids) = "done"
                 THEN Raise(e) ELSE result
    /\ calls' = calls \o issued
    /\ UNCHANGED << remote_ports, port_seq, touched_port_ids,
                    created_port_ids, available_macs >>

\* TakeMac with the MAC left in the pool
TakeMac_Kept(macs, mac) == macs

\* line 264: available_macs.pop() takes the MAC out of the pool
TakeMac(macs, mac) == IF macs # NoMacs THEN macs \ {mac} ELSE macs

\* lines 222-267: one network of nets
AllocNetwork ==
    /\ pc = "loop"
    /\ LET network == nets[idx]
           network_id == network.id
       IN
       IF security_groups # << >> /\ ~SecurityGroupApplicable(network)
       THEN \* line 233, outside the try statement
            /\ result' = Raise("SecurityGroupCannotBeApplied")
            /\ raised' = "SecurityGroupCannotBeApplied"
            /\ pc' = "done"
            /\ UNCHANGED << remote_ports, port_seq, extensions,
                            last_quantum_extension_sync, touched_port_ids,
                            created_port_ids, available_macs, idx, exc,
                            calls >>
       ELSE
         \E refresh \in {last_quantum_extension_sync = NeverSynced, TRUE},
            listed \in BOOLEAN :
            IF refresh /\ ~listed
            THEN \* list_extensions failed (line 311)
                 /\ TryRaise("QuantumClientException:list_extensions", << >>)
                 /\ UNCHANGED << extensions, last_quantum_extension_sync >>
            ELSE
              /\ extensions' = IF refresh THEN remote_extensions
                               ELSE extensions
              /\ last_quantum_extension_sync' =
                     IF refresh THEN now
                     ELSE last_quantum_extension_sync
              /\ LET port == Get(ports, network_id)
                     exts == extensions'
                 IN
                 IF port # None
                 THEN \* the reuse path, lines 246-248
                      \/ /\ remote_ports' =
                                UpdatePort(remote_ports, port,
                                           PortReqBody(instance, exts))
                         /\ touched_port_ids' = Append(touched_port_ids, port)
                         /\ calls' = Append(calls,
                               Call("update_port", port, TRUE, "allocate"))
                         /\ idx' = idx + 1
                         /\ pc' = LoopPc(idx + 1, nets)
                         /\ UNCHANGED << created_port_ids, available_macs,
                                         exc, raised, result, port_seq >>
                      \/ TryRaise("QuantumClientException:update_port",
                           << Call("update_port", port, FALSE,
                                   "allocate") >>)
                 ELSE \* the create path, lines 249-267
                      IF available_macs # NoMacs /\ available_macs = {}
                      THEN TryRaise("PortNotFree", << >>)
                      ELSE
                        \E mac \in available_macs :
                          LET body ==
                                CreateReqBody(instance, exts, network_id,
                                    Get(fixed_ips, network_id),
                                    security_group_ids)
                                @@ (IF available_macs # NoMacs
                                    THEN "mac_address" :> mac
                                    ELSE EmptyDict)
                          IN
                          \/ /\ remote_ports' =
                                    CreatePort(remote_ports, port_seq, body)
                             /\ port_seq' = port_seq + 1
                             /\ created_port_ids' =
                                    Append(created_port_ids,
                                           NewPortId(port_seq))
                             /\ available_macs' =
                                    TakeMac(available_macs, mac)
                             /\ calls' = Append(calls,
                                   Call("create_port",
                                        NewPortId(port_seq), TRUE,
                                        "allocate"))
                             /\ idx' = idx + 1
                             /\ pc' = LoopPc(idx + 1, nets)
                             /\ UNCHANGED << touched_port_ids, exc, raised,
                                             result >>
                          \/ TryRaise("QuantumClientException:create_port",
                               << Call("create_port", None, FALSE,
                                       "allocate") >>)
    /\ UNCHANGED << user_security_groups, remote_extensions, info_cache,
                    inputVars, ports, fixed_ips, net_ids, nets,
                    security_group_ids, logged, nw_info, lifeVars, extVars,
                    fipVars, callVars >>

\* CompensationFailed with the failure of the compensating call taking the
\* place of the saved exception
CompensationFailed_Masks(e, err) == err

\* lines 281-283 and 288-290: a compensating call failed with err while e
\* is being handled; the failure is logged and e stays the saved exception
CompensationFailed(e, err) == e

\* lines 272-279: the body that unbinds a touched port
UnbindReqBody(exts) ==
    [f \in {"device_id"}
           \cup (IF PORTBINDING_EXT \in exts THEN {"host_id"} ELSE {}) |->
        None]

\* lines 270-283: one touched port is unbound, or the failure is logged
RollbackTouched ==
    /\ pc = "rollback_touched"
    /\ LET port_id == touched_port_ids[idx]
           last == idx = Len(touched_port_ids)
           next == IF ~last THEN "rollback_touched"
                   ELSE RollbackPc(<< >>, created_port_ids)
       IN  \E ok \in BOOLEAN :
             /\ remote_ports' =
                    IF ok THEN UpdatePort(remote_ports, port_id,
                                          UnbindReqBody(extensions))
                    ELSE remote_ports
             /\ exc' = IF ok THEN exc
                       ELSE CompensationFailed(exc,
                                "QuantumClientException:rollback_update")
             /\ logged' = IF ok THEN logged ELSE logged + 1
             /\ calls' = Append(calls,
                                Call("update_port", port_id, ok, "rollback"))
             /\ idx' = IF last THEN 1 ELSE idx + 1
             /\ pc' = next
             /\ result' = IF next = "done" THEN Raise(exc') ELSE result
    /\ UNCHANGED << user_security_groups, remote_extensions, extensions,
                    last_quantum_extension_sync, info_cache, inputVars,
                    ports, fixed_ips, net_ids, nets, security_group_ids,
                    available_macs, touched_port_ids, created_port_ids,
                    raised, port_seq, nw_info, lifeVars, extVars, fipVars, callVars >>

\* lines 285-290: one created port is deleted, or the failure is logged;
\* after the last one the saved exception is raised again
RollbackCreated ==
    /\ pc = "rollback_created"
    /\ LET port_id == created_port_ids[idx]
           last == idx = Len(created_port_ids)
       IN  \E ok \in BOOLEAN :
             /\ remote_ports' = IF ok THEN DeletePort(remote_ports, port_id)
                                ELSE remote_ports
             /\ deleted' = IF ok THEN deleted \cup {port_id} ELSE deleted
             /\ exc' = IF ok THEN exc
                       ELSE CompensationFailed(exc,
                                "QuantumClientException:rollback_delete")
             /\ logged' = IF ok THEN logged ELSE logged + 1
             /\ calls' = Append(calls,
                                Call("delete_port", port_id, ok, "rollback"))
             /\ idx' = IF last THEN idx ELSE idx + 1
             /\ pc' = IF last THEN "done" ELSE "rollback_created"
             /\ result' = IF last THEN Raise(exc') ELSE result
    /\ UNCHANGED << user_security_groups, remote_extensions, extensions,
                    last_quantum_extension_sync, info_cache, inputVars,
                    ports, fixed_ips, net_ids, nets, security_group_ids,
                    available_macs, touched_port_ids, created_port_ids,
                    raised, port_seq, nw_info, op, ncalls, before, extVars,
                    fipVars, callVars >>

\* lines 292-304: the network info is rebuilt and cached (get_instance_nw_info
\* is decorated with refresh_cache), and the records of the ports of this run
\* are returned; a lookup of the rebuild may raise instead
AllocFinish ==
    /\ pc = "finish"
    /\ \/ \E listing \in list_ports(remote_ports, instance.project_id,
                                    instance.uuid) :
            LET built == build_network_info_model(listing, nets,
                                                  info_cache)
                returned == ReturnedInfo(built, created_port_ids,
                                         touched_port_ids)
            IN  /\ nw_info' = built
                /\ info_cache' = refresh_cache(info_cache, built)
                /\ result' = Return(returned)
                /\ before' = IF before.stage = 3 THEN before
                             ELSE [stage |-> 1,
                                   requested |-> requested_networks,
                                   networks |-> SnapshotNetworks(returned)]
       \/ /\ result' = Raise("QuantumClientException:nw_info")
          /\ UNCHANGED << info_cache, nw_info, before >>
    /\ notified' = Triggered("instance_add_security_group")
    /\ pc' = "done"
    /\ UNCHANGED << remoteVars, port_seq, extensions,
                    last_quantum_extension_sync, inputVars, localVars, calls,
                    raised, logged, op, ncalls, deleted, extVars, fipVars,
                    api_call >>

Next ==
    \/ AllocEnter
    \/ AllocResolve
    \/ AllocNetwork
    \/ RollbackTouched
    \/ RollbackCreated
    \/ AllocFinish

Spec == Init /\ [][Next]_vars

---------------------------------------------------------------------------
(* The security-group resolution on its own: the call stands before line   *)
(* 183 with no requested network, the tenant has any list of at most       *)
(* MaxGroups groups with distinct ids, and any list of at most MaxSG       *)
(* strings is requested.                                                   *)

GroupIds == {"g1", "g2", "g3"}
GroupNames == {"web", "g1", "g2"}
GroupStrings == GroupIds \cup GroupNames \cup {"zz"}

GroupLists ==
    { gs \in SeqUpTo([id : GroupIds, name : GroupNames], MaxGroups) :
        \A i, j \in DOMAIN gs : i # j => gs[i].id # gs[j].id }

InitSG ==
    /\ remote_ports = PrePorts(None)
    /\ info_cache = << >>
    /\ user_security_groups \in GroupLists
    /\ remote_extensions = {}
    /\ extensions = {}
    /\ last_quantum_extension_sync = NeverSynced
    /\ instance = [uuid |-> "A", project_id |-> "T", host |-> "h1",
                   availability_zone |-> "nova"]
    /\ requested_networks = << >>
    /\ hypervisor_macs = NoMacs
    /\ security_groups \in SeqUpTo(GroupStrings, MaxSG)
    /\ pc = "resolve"
    /\ ports = EmptyDict
    /\ fixed_ips = EmptyDict
    /\ net_ids = << >>
    /\ nets = << >>
    /\ security_group_ids = << >>
    /\ available_macs = NoMacs
    /\ touched_port_ids = << >>
    /\ created_port_ids = << >>
    /\ idx = 0
    /\ exc = None
    /\ result = NoResult
    /\ calls = << >>
    /\ raised = None
    /\ logged = 0
    /\ InitRest

NextSG == AllocResolve

SpecSG == InitSG /\ [][NextSG]_vars

---------------------------------------------------------------------------
(* What the claims speak of.                                               *)

Done == pc = "done"
Returned == Done /\ result.kind = "return"
Raised(e) == Done /\ result = Raise(e)

\* the ports this call created or re-bound
PortsOfCall == Range(created_port_ids) \cup Range(touched_port_ids)

\* the network an entry of requested_networks asks for: that of its port, or
\* the one it names
EntryNet(entry) ==
    IF entry[3] # None THEN remote_ports[entry[3]].network_id ELSE entry[1]

\* the first position of requested_networks that asks for network n, 0 if none
FirstRequest(n) ==
    IF \E i \in DOMAIN requested_networks :
           EntryNet(requested_networks[i]) = n
    THEN CHOOSE i \in DOMAIN requested_networks :
           /\ EntryNet(requested_networks[i]) = n
           /\ \A j \in 1..(i - 1) : EntryNet(requested_networks[j]) # n
    ELSE 0

\* the compensating calls of the except clause, in the order issued
RollbackCalls == SelectSeq(calls, LAMBDA c : c.phase = "rollback")

\* the per-network step raised inside the try statement
TryFailed == exc # None

---------------------------------------------------------------------------
(* C1 - C10                                                                *)

\* C1 (as claimed; violated).  Rollback completeness: when a per-network
\* step raised after this call created or re-bound a port, and no
\* compensating call failed, none of the ports created by the call is left in
\* the remote port set and no port it re-bound still carries a device id.
C1_RollbackComplete ==
    (/\ Done /\ result.kind = "raise" /\ raised # None
     /\ PortsOfCall # {} /\ logged = 0)
    => /\ \A p \in Range(created_port_ids) : p \notin DOMAIN remote_ports
       /\ \A p \in Range(touched_port_ids) :
              remote_ports[p].device_id = None

C3_NoPortBeforeSecurityGroupCheck ==
    Raised("SecurityGroupCannotBeApplied")
    => calls = << >> /\ PortsOfCall = {}

\* an entry of requested_networks names a port whose MAC address the
\* hypervisor did not supply
UnusablePortRequested ==
    /\ hypervisor_macs # NoMacs
    /\ \E i \in DOMAIN requested_networks :
         /\ requested_networks[i][3] # None
         /\ remote_ports[requested_networks[i][3]].mac_address
                \notin hypervisor_macs

\* C4.  With hypervisor MACs given and an entry, anywhere in
\* requested_networks, naming a port whose MAC is not among them, the call
\* ends raising PortNotUsable (InvalidInput if the project id is empty, which
\* is checked first) and issues no create, update or delete call.
C4_PortNotUsable ==
    (pc # "idle" /\ UnusablePortRequested)
    => /\ Done
       /\ result = IF instance.project_id = "" THEN Raise("InvalidInput")
                   ELSE Raise("PortNotUsable")
       /\ calls = << >>
       /\ PortsOfCall = {}

\* C4's case: the second of two entries names the unusable port
C4_Witness ==
    /\ Raised("PortNotUsable")
    /\ Len(requested_networks) = 2
    /\ requested_networks[1][3] = "P1"
    /\ requested_networks[2][3] = "P2"
    /\ hypervisor_macs = {"m1"}

\* the groups of the tenant named s
GroupsNamed(s) ==
    { j \in DOMAIN user_security_groups : user_security_groups[j].name = s }

\* s matches no group of the tenant by name or id
Unmatched(s) ==
    \A j \in DOMAIN user_security_groups :
        user_security_groups[j].name # s /\ user_security_groups[j].id # s

\* s cannot be resolved
Unresolvable(s) == Cardinality(GroupsNamed(s)) >= 2 \/ Unmatched(s)

\* the call got as far as resolving the security groups (line 183)
ResolutionReached ==
    /\ pc \notin {"idle", "resolve"}
    /\ ~Raised("InvalidInput")
    /\ ~Raised("PortNotUsable")

\* C5.  When the resolution of the security groups is reached and an entry
\* cannot be resolved, the call ends with the error of the first such entry,
\* NoUniqueMatch if its name matches two or more groups and
\* SecurityGroupNotFound if it matches none by name or id, has issued no
\* create, update or delete call, and the remote port set is as it was.
C5_SecurityGroupsFailClosed ==
    (/\ ResolutionReached
     /\ \E i \in DOMAIN security_groups : Unresolvable(security_groups[i]))
    => LET i == CHOOSE i \in DOMAIN security_groups :
                  /\ Unresolvable(security_groups[i])
                  /\ \A j \in 1..(i - 1) : ~Unresolvable(security_groups[j])
       IN  /\ Done
           /\ result = IF Cardinality(GroupsNamed(security_groups[i])) >= 2
                       THEN Raise("NoUniqueMatch")
                       ELSE Raise("SecurityGroupNotFound")
           /\ calls = << >>
           /\ PortsOfCall = {}
           /\ \E d \in {None, "A"} : remote_ports = PrePorts(d)

\* C5's case: of two groups requested the second is a name shared by two
\* groups of the tenant, on a request that names networks
C5_Witness ==
    /\ Raised("NoUniqueMatch")
    /\ security_groups = << "db", "web" >>
    /\ requested_networks # << >>
    /\ calls = << >>

\* C6.  A requested string that is the name of exactly one group of the
\* tenant and the id of a different group resolves to the id of the group so
\* named.
C6_NameMatchWins ==
    \A i \in DOMAIN security_group_ids :
        LET s == security_groups[i]
        IN  (/\ Cardinality(GroupsNamed(s)) = 1
             /\ \E j \in DOMAIN user_security_groups \ GroupsNamed(s) :
                    user_security_groups[j].id = s)
            => \E j \in GroupsNamed(s) :
                   security_group_ids[i] = user_security_groups[j].id

\* C6's case: "g1" is the id of the first group and the name of the second
C6_Witness ==
    /\ pc = "loop"
    /\ user_security_groups = << [id |-> "g1", name |-> "web"],
                                 [id |-> "g2", name |-> "g1"] >>
    /\ security_groups = << "g1" >>
    /\ security_group_ids = << "g2" >>

\* C7 (as claimed; violated).  On success with requested networks, the
\* records returned follow the order in which their networks are first asked
\* for in requested_networks.
C7_RequestedOrder ==
    (Returned /\ requested_networks # << >>)
    => \A i, j \in DOMAIN result.nw_info :
         (/\ i < j
          /\ FirstRequest(result.nw_info[i].network_id) # 0
          /\ FirstRequest(result.nw_info[j].network_id) # 0)
         => FirstRequest(result.nw_info[i].network_id)
              <= FirstRequest(result.nw_info[j].network_id)

\* C8 (as claimed; violated).  On success the snapshot returned has a record
\* of port p exactly if this call created or re-bound p.
C8_ReturnsPortsOfCall ==
    Returned
    => { result.nw_info[i].id : i \in DOMAIN result.nw_info } = PortsOfCall

\* the call has no pre-supplied port, no security group and no MAC constraint
PlainRequest ==
    /\ \A i \in DOMAIN requested_networks : requested_networks[i][3] = None
    /\ security_groups = << >>
    /\ hypervisor_macs = NoMacs

\* the address of the last entry of requested_networks that names network n
\* with a fixed IP, None if there is none
LastAddress(n) ==
    LET asks == { i \in DOMAIN requested_networks :
                    /\ requested_networks[i][1] = n
                    /\ requested_networks[i][2] # None }
    IN  IF asks = {} THEN None
        ELSE requested_networks[CHOOSE i \in asks :
                                   \A j \in asks : j <= i][2]

\* C9 (as claimed; violated).  A successful plain call creates one port per
\* resolved network, and the port on network n carries fixed IP a exactly if
\* an entry of requested_networks asks for a on n.
C9_FixedIpIffRequested ==
    (Returned /\ PlainRequest)
    => /\ Len(created_port_ids) = Len(nets)
       /\ \A i \in DOMAIN created_port_ids :
            /\ created_port_ids[i] \in DOMAIN remote_ports
            /\ LET port == remote_ports[created_port_ids[i]]
               IN  /\ port.network_id = nets[i].id
                   /\ \A a \in {"ipA", "ipB"} :
                        a \in Range(port.fixed_ips)
                        <=> \E k \in DOMAIN requested_networks :
                              requested_networks[k] =
                                  << port.network_id, a, None >>

\* C9 (amended).  A successful plain call creates one port per resolved
\* network, in the order of the networks, each bound to the instance, and
\* the port on network n carries the fixed IP of the last entry of
\* requested_networks that asks for an address on n, and no fixed IP if no
\* entry does.
C9_OnePortPerNetwork ==
    (Returned /\ PlainRequest)
    => /\ Len(created_port_ids) = Len(nets)
       /\ touched_port_ids = << >>
       /\ \A i \in DOMAIN created_port_ids :
            /\ created_port_ids[i] \in DOMAIN remote_ports
            /\ LET port == remote_ports[created_port_ids[i]]
               IN  /\ port.network_id = nets[i].id
                   /\ port.device_id = instance.uuid
                   /\ port.fixed_ips =
                        IF LastAddress(port.network_id) = None THEN << >>
                        ELSE << LastAddress(port.network_id) >>
       /\ \A i, j \in DOMAIN nets : i # j => nets[i].id # nets[j].id

\* C9's case: two networks, an address asked for on the second only, and two
\* ports created
C9_Witness ==
    /\ Returned
    /\ requested_networks = << << "n2", None, None >>,
                               << "n1", "ipB", None >> >>
    /\ security_groups = << >> /\ hypervisor_macs = NoMacs
    /\ created_port_ids = << "c1", "c2" >>
    /\ remote_ports["c1"].fixed_ips = << >>
    /\ remote_ports["c2"].fixed_ips = << "ipB" >>
    /\ Len(result.nw_info) = 2

\* C10 (as claimed; violated).  A call that returns normally has made or
\* re-bound a port on every network requested_networks refers to, by id or
\* through a port.
C10_MissingNetworkReported ==
    Returned
    => \A i \in DOMAIN requested_networks :
         EntryNet(requested_networks[i]) # None
         => \E p \in PortsOfCall :
              /\ p \in DOMAIN remote_ports
              /\ remote_ports[p].network_id
                   = EntryNet(requested_networks[i])

\* the resolved networks on which the call has to create a port
NetsNeedingPort ==
    { i \in DOMAIN nets : Get(ports, nets[i].id) = None }

\* the MACs of the pool that no pre-supplied port of the request has
MacsLeft ==
    hypervisor_macs
      \ { remote_ports[requested_networks[i][3]].mac_address :
            i \in { j \in DOMAIN requested_networks :
                      requested_networks[j][3] # None } }

\* a MAC pool is given and is too small for the ports to create
MacShortage ==
    /\ hypervisor_macs # NoMacs
    /\ pc \in {"loop", "rollback_touched", "rollback_created", "finish",
               "done"}
    /\ ~Raised("NoUniqueMatch") /\ ~Raised("SecurityGroupNotFound")
    /\ Cardinality(NetsNeedingPort) > Cardinality(MacsLeft)

\* the errors of a step that comes before the pool runs out
EarlierErrors ==
    { "SecurityGroupCannotBeApplied", "QuantumClientException:update_port",
      "QuantumClientException:create_port",
      "QuantumClientException:list_extensions" }

\* C11.  With a MAC pool too small for the networks that need a new port,
\* the call never reaches its return: it ends raising PortNotFree, unless an
\* earlier step raised first; and with a pool given, every port the call
\* created has a MAC of the pool, no two of them the same one.
C11_PortNotFree ==
    /\ MacShortage => pc # "finish" /\ result.kind # "return"
    /\ (MacShortage /\ Done)
         => (result = Raise("PortNotFree") \/ result.exc \in EarlierErrors)
    /\ (/\ MacShortage /\ Done /\ security_groups = << >>
        /\ raised # "QuantumClientException:list_extensions"
        /\ \A i \in DOMAIN calls :
              calls[i].phase = "allocate" => calls[i].ok)
         => result = Raise("PortNotFree")
    /\ hypervisor_macs # NoMacs
         => /\ \A p \in Range(created_port_ids) \cap DOMAIN remote_ports :
                  remote_ports[p].mac_address \in MacsLeft
            /\ \A p, q \in Range(created_port_ids) \cap DOMAIN remote_ports :
                  p # q => remote_ports[p].mac_address
                             # remote_ports[q].mac_address

\* C11's case: one MAC for two networks; the port made with it on the first
\* network is deleted again and PortNotFree reaches the caller
C11_Witness ==
    /\ Raised("PortNotFree")
    /\ hypervisor_macs = {"m3"}
    /\ Len(nets) = 2
    /\ Len(created_port_ids) = 1
    /\ Len(RollbackCalls) = 1 /\ RollbackCalls[1].op = "delete_port"

---------------------------------------------------------------------------
(* Two instances: while the call for instance A runs, or before it, an     *)
(* allocation for instance B that names one of the pre-existing ports      *)
(* binds it (line 247 of B's call).                                        *)

OtherInstance == "B"

\* line 247 of the allocation for B: update_port on a port B's request names
OtherInstanceBinds ==
    /\ \E p \in {"P1", "P2"} :
         /\ remote_ports[p].device_id # OtherInstance
         /\ remote_ports' =
                UpdatePort(remote_ports, p,
                    [f \in {"device_id", "device_owner"} |->
                        IF f = "device_id" THEN OtherInstance
                        ELSE "compute:nova"])
    /\ UNCHANGED << user_security_groups, remote_extensions, extensions,
                    last_quantum_extension_sync, info_cache, inputVars,
                    localVars, pc, result, calls, raised, logged, port_seq,
                    nw_info, lifeVars, extVars, fipVars, callVars >>

NextPair ==
    \/ AllocEnter
    \/ AllocResolve
    \/ AllocNetwork
    \/ RollbackTouched
    \/ RollbackCreated
    \/ AllocFinish
    \/ OtherInstanceBinds

SpecPair == Init /\ [][NextPair]_vars

\* C12 (as claimed; violated).  No step of the call for instance A updates
\* or deletes a port whose device id names instance B: such a port is still
\* there, bound to B, after every step.
C12_CrossInstanceIsolation ==
    [][\A p \in DOMAIN remote_ports :
          remote_ports[p].device_id = OtherInstance
          => /\ p \in DOMAIN remote_ports'
             /\ remote_ports'[p].device_id = OtherInstance]_vars

---------------------------------------------------------------------------
(* The operations on one instance, one after another: allocations,         *)
(* deallocations and refreshes of the network info, at most MaxCalls of    *)
(* them.                                                                   *)

\* the most operations run on the instance
MaxCalls == 3
\* the most ports the instance has after an allocation
MaxPorts == 4

\* the requests of the allocations: a network, a network with an address, a
\* port made beforehand
LifeReqEntries ==
    { << "n1", None, None >>, << "n3", "ipA", None >>,
      << None, None, "P1" >> }

LifeReqChoices == SeqUpTo(LifeReqEntries, MaxReq) \ { << >> }

LifeInstance ==
    [uuid |-> "A", project_id |-> "T", host |-> "h1",
     availability_zone |-> "nova"]

\* no call is running
Idle == pc \in {"idle", "done"}

\* list_ports(device_id=...) of line 335: the ids of the device's ports
PortsOfDevice(rports, device_id) ==
    { p \in DOMAIN rports : rports[p].device_id = device_id }

\* delete_port on each port of a set
DeletePorts(rports, gone) ==
    [p \in DOMAIN rports \ gone |-> rports[p]]

\* lines 833-840 and 866-931: _build_network_info_model without networks;
\* the cached interfaces give the networks and their order, the networks
\* the tenant can use give the names
build_from_cache(listing, available, cached) ==
    LET ids == [i \in DOMAIN cached |-> cached[i].network_id]
        kept == SelectSeq(listing, LAMBDA p : p.network_id \in Range(ids))
        ordered == ensure_requested_network_ordering("network_id", kept, ids)
    IN  [i \in DOMAIN ordered |->
            VIF(ordered[i].id, ordered[i].mac_address,
                ordered[i].network_id, NetworkName(ordered[i], available))]

\* a call other than an allocation starts: the locals of the call before
\* are gone
LocalsDropped ==
    /\ ports' = EmptyDict
    /\ fixed_ips' = EmptyDict
    /\ net_ids' = << >>
    /\ nets' = << >>
    /\ security_group_ids' = << >>
    /\ available_macs' = NoMacs
    /\ touched_port_ids' = << >>
    /\ created_port_ids' = << >>
    /\ idx' = 0
    /\ exc' = None
    /\ raised' = None
    /\ nw_info' = << >>

\* the locals and the history of the call before are gone
FrameDropped == LocalsDropped /\ calls' = << >>

\* DeleteCalls with the loop left at the first delete that fails
DeleteCalls_StopAtFailure(listing, failed) ==
    LET first == { i \in DOMAIN listing :
                     /\ listing[i] \in failed
                     /\ \A j \in 1..(i - 1) : listing[j] \notin failed }
    IN  [i \in 1..(IF first = {} THEN Len(listing)
                   ELSE CHOOSE i \in first : TRUE) |->
            Call("delete_port", listing[i], listing[i] \notin failed,
                 "deallocate")]

\* lines 338-343: delete_port on each port listed, in turn; those of failed
\* raise, which is logged
DeleteCalls(listing, failed) ==
    [i \in DOMAIN listing |->
        Call("delete_port", listing[i], listing[i] \notin failed,
             "deallocate")]

\* the ports whose delete_port call succeeded
PortsDeleted(issued) ==
    { issued[i].port : i \in { j \in DOMAIN issued : issued[j].ok } }

\* allocate_for_instance is called on the instance, again or for the first
\* time
AllocateForInstance ==
    /\ Idle
    /\ ncalls < MaxCalls
    /\ port_seq + MaxReq <= Len(FreshPortIds)
    /\ Cardinality(PortsOfDevice(remote_ports, LifeInstance.uuid)) + MaxReq
           <= MaxPorts
    /\ \E reqs \in LifeReqChoices :
         AllocStart(LifeInstance, reqs, NoMacs, << >>)

\* lines 331-345: deallocate_for_instance deletes every port of the device;
\* a delete that fails is logged and the loop goes on
DeallocateForInstance ==
    /\ Idle
    /\ ncalls < MaxCalls
    /\ \/ \E failed \in SUBSET PortsOfDevice(remote_ports, instance.uuid),
             listing \in Perms(PortsOfDevice(remote_ports, instance.uuid)) :
            LET issued == DeleteCalls(listing, failed)
                gone == PortsDeleted(issued)
            IN  /\ remote_ports' = DeletePorts(remote_ports, gone)
                /\ calls' = issued
                /\ deleted' = gone
                /\ logged' = Len(issued) - Cardinality(gone)
                /\ result' = Return(<< >>)
                /\ notified' = Triggered("instance_remove_security_group")
                /\ before' = IF before.stage = 1
                             THEN [before EXCEPT !.stage = 2]
                             ELSE NoRound
       \/ /\ result' = Raise("QuantumClientException:list_ports")
          /\ calls' = << >>
          /\ notified' = << >>
          /\ deleted' = {}
          /\ logged' = 0
          /\ before' = NoRound
          /\ UNCHANGED remote_ports
    /\ op' = "deallocate"
    /\ ncalls' = ncalls + 1
    /\ pc' = "done"
    /\ LocalsDropped
    /\ UNCHANGED << user_security_groups, remote_extensions, port_seq,
                    extensions, last_quantum_extension_sync, info_cache,
                    inputVars, extVars, fipVars, api_call >>

\* lines 378-392: get_instance_nw_info without networks builds the network
\* info and the decorator caches it; a failed lookup raises
NwInfoRefreshed ==
    \/ \E listing \in list_ports(remote_ports', instance.project_id,
                                 instance.uuid),
          available \in get_available_networks(instance.project_id, << >>) :
         LET built == build_from_cache(listing, available, info_cache)
         IN  /\ info_cache' = refresh_cache(info_cache, built)
             /\ result' = Return(built)
    \/ /\ result' = Raise("QuantumClientException:nw_info")
       /\ UNCHANGED info_cache

\* lines 354-370: deallocate_port_for_instance deletes the port, logging a
\* failure, and returns the refreshed network info
DeallocatePortForInstance ==
    /\ Idle
    /\ ncalls < MaxCalls
    /\ \E port_id \in PortsOfDevice(remote_ports, instance.uuid),
          ok \in BOOLEAN :
         /\ remote_ports' = IF ok THEN DeletePort(remote_ports, port_id)
                            ELSE remote_ports
         /\ deleted' = IF ok THEN {port_id} ELSE {}
         /\ logged' = IF ok THEN 0 ELSE 1
    /\ notified' = Triggered("instance_remove_security_group")
    /\ NwInfoRefreshed
    /\ op' = "deallocate_port"
    /\ ncalls' = ncalls + 1
    /\ before' = NoRound
    /\ pc' = "done"
    /\ FrameDropped
    /\ UNCHANGED << user_security_groups, remote_extensions, port_seq,
                    extensions, last_quantum_extension_sync, inputVars,
                    extVars, fipVars, api_call >>

\* lines 378-385: get_instance_nw_info called on its own
GetInstanceNwInfo ==
    /\ Idle
    /\ ncalls < MaxCalls
    /\ remote_ports' = remote_ports
    /\ notified' = << >>
    /\ NwInfoRefreshed
    /\ deleted' = {}
    /\ logged' = 0
    /\ op' = "get_instance_nw_info"
    /\ ncalls' = ncalls + 1
    /\ before' = before
    /\ pc' = "done"
    /\ FrameDropped
    /\ UNCHANGED << user_security_groups, remote_extensions, port_seq,
                    extensions, last_quantum_extension_sync, inputVars,
                    extVars, fipVars, api_call >>

NextLife ==
    \/ AllocateForInstance
    \/ AllocResolve
    \/ AllocNetwork
    \/ RollbackTouched
    \/ RollbackCreated
    \/ AllocFinish
    \/ DeallocateForInstance
    \/ DeallocatePortForInstance
    \/ GetInstanceNwInfo

\* the quantum service has no extension
InitLife == Init /\ remote_extensions = {}

SpecLife == InitLife /\ [][NextLife]_vars

\* the errors of remote calls that fail for reasons outside the program
RemoteFailures ==
    { "QuantumClientException:list_extensions",
      "QuantumClientException:update_port",
      "QuantumClientException:create_port",
      "QuantumClientException:nw_info",
      "QuantumClientException:list_ports" }

\* an allocation that returned, a deallocation, and a new allocation with
\* the same requested networks has ended, no remote call of it having failed
\* for outside reasons
RoundTripDone ==
    /\ Done /\ op = "allocate" /\ before.stage = 3
    /\ result.exc \notin RemoteFailures

\* C13 (as claimed; violated).  Round trip: after deallocate_for_instance, a
\* fresh allocate_for_instance with the same requested networks returns a
\* snapshot with the same set of network ids as the allocation before the
\* deallocation returned.
C13_RoundTrip ==
    RoundTripDone
    => /\ Returned
       /\ SnapshotNetworks(result.nw_info) = before.networks

\* the ports with a record in the instance's cached network info
CachedPorts == { info_cache[i].id : i \in DOMAIN info_cache }

\* C14 (as claimed; violated).  When an allocation, a deallocation or a
\* refresh has returned, the instance's cached network info has no record
\* of a port the operation deleted.
C14_CacheDropsDeletedPorts ==
    (Returned /\ op # None) => CachedPorts \cap deleted = {}

---------------------------------------------------------------------------
(* _build_network_info_model on its own: an allocation stands before line  *)
(* 296 with any list of distinct networks, any cached network info of at   *)
(* most MaxCached interfaces, and the instance's ports as they may be.     *)

\* the most interfaces in the cached network info
MaxCached == 2

\* cached interfaces: on networks of the tenant, on the shared network, and
\* on a network the tenant no longer sees
CacheRecords ==
    { VIF("P1", "m1", "n1", "net1"), VIF("P2", "m2", "n3", "net3"),
      VIF("x1", "m5", "n2", "net2"), VIF("x9", "m9", "n4", "net4") }

\* the lists of distinct networks a caller passes
NetworkLists ==
    { ns \in SeqUpTo(Range(Networks), MaxReq) :
        \A i, j \in DOMAIN ns : i # j => ns[i] # ns[j] }

\* the pre-existing ports and a port x1 on n2, each bound to the instance
\* or free
BuildPorts(d1, d2) ==
    Put(PrePorts(d1), "x1",
        [network_id |-> "n2", mac_address |-> "m5", tenant_id |-> "T",
         device_id |-> d2, device_owner |-> None, fixed_ips |-> << >>,
         security_groups |-> << >>, host_id |-> None])

InitBuild ==
    /\ \E d1, d2 \in {None, "A"} : remote_ports = BuildPorts(d1, d2)
    /\ info_cache \in SeqUpTo(CacheRecords, MaxCached)
    /\ nets \in NetworkLists
    /\ user_security_groups = TenantGroups
    /\ remote_extensions = {}
    /\ extensions = {}
    /\ last_quantum_extension_sync = NeverSynced
    /\ instance = LifeInstance
    /\ requested_networks = << >>
    /\ hypervisor_macs = NoMacs
    /\ security_groups = << >>
    /\ pc = "finish"
    /\ ports = EmptyDict
    /\ fixed_ips = EmptyDict
    /\ net_ids = << >>
    /\ security_group_ids = << >>
    /\ available_macs = NoMacs
    /\ touched_port_ids = << >>
    /\ created_port_ids = << >>
    /\ idx = 0
    /\ exc = None
    /\ result = NoResult
    /\ calls = << >>
    /\ raised = None
    /\ logged = 0
    /\ InitRest

NextBuild == AllocFinish

SpecBuild == InitBuild /\ [][NextBuild]_vars

\* C15.  When the build with the networks given succeeds, its output starts
\* with the records of the cached network info, each as it was cached and in
\* the cached order, whether or not its network is among those given, and
\* every record after them is built from a listed port of the instance on
\* one of the networks given.
C15_CachedRecordsKept ==
    [][(pc = "finish" /\ result'.kind = "return")
       => /\ Len(nw_info') >= Len(info_cache)
          /\ SubSeq(nw_info', 1, Len(info_cache)) = info_cache
          /\ \A i \in (Len(info_cache) + 1)..Len(nw_info') :
                /\ nw_info'[i].id \in DOMAIN remote_ports
                /\ remote_ports[nw_info'[i].id].device_id = instance.uuid
                /\ nw_info'[i].network_id
                       \in { nets[k].id : k \in DOMAIN nets }]_vars

\* C15's case: two cached interfaces, neither on the network given, come
\* first, then the record built for the instance's port on that network
C15_Witness ==
    /\ Returned
    /\ Len(nets) = 1 /\ nets[1].id = "n1"
    /\ nw_info = << VIF("x9", "m9", "n4", "net4"),
                    VIF("P2", "m2", "n3", "net3"),
                    VIF("P1", "m1", "n1", "net1") >>

---------------------------------------------------------------------------
(* The extension cache (lines 306-329): threads query the capabilities of  *)
(* the API object while the clock runs and the extensions of the quantum   *)
(* service change.  A thread stands at "list" before line 311, at "stamp"  *)
(* before line 312, at "clear" before line 313, at "assign" before line    *)
(* 314, at "hit" when the test of lines 307-309 found the cache fresh, and *)
(* at "read" before line 320.                                              *)

\* CONF.quantum_extension_sync_interval, in ticks of the clock
quantum_extension_sync_interval == 2
\* the last tick of the clock
MaxTime == 4
\* the most list_extensions calls made
MaxListCalls == 3

\* what list_extensions may return
ExtensionLists == { {}, {PORTBINDING_EXT} }

\* the thread is in no call
AtRest == {"idle", "returned", "raised"}

\* RefreshDue with every query refreshing
RefreshDue_Always(last, t) == TRUE

\* lines 307-309: the cache never synced, or synced an interval ago or more
RefreshDue(last, t) ==
    last = NeverSynced \/ t - last >= quantum_extension_sync_interval

\* AfterListFailure with the cache emptied
AfterListFailure_Emptied(cache) == {}

\* line 311 raised: lines 312-315 are not reached and the cache stays
AfterListFailure(cache) == cache

\* what the extension cache steps leave alone
ExtFrame ==
    UNCHANGED << remote_ports, user_security_groups, info_cache, inputVars,
                 localVars, pc, result, calls, raised, logged, port_seq,
                 nw_info, lifeVars, fipVars, callVars >>

\* lines 306-309, 317-319, 323: a capability query starts, with the refresh
\* (_populate_quantum_extension_values, _has_port_binding_extension(True))
\* or without it
ExtQuery(t) ==
    /\ tpc[t] \in AtRest
    /\ list_calls < MaxListCalls
    /\ \E refresh \in BOOLEAN :
         tpc' = [tpc EXCEPT ![t] =
                    IF ~refresh THEN "read"
                    ELSE IF RefreshDue(last_quantum_extension_sync, now)
                         THEN "list" ELSE "hit"]
    /\ UNCHANGED << remote_extensions, extensions,
                    last_quantum_extension_sync, now, list_calls, tlist,
                    seen >>
    /\ ExtFrame

\* lines 310-311: list_extensions answers, or fails and the error leaves
\* the call
ExtList(t) ==
    /\ tpc[t] = "list"
    /\ list_calls' = list_calls + 1
    /\ \/ /\ tlist' = [tlist EXCEPT ![t] = remote_extensions]
          /\ tpc' = [tpc EXCEPT ![t] = "stamp"]
          /\ UNCHANGED extensions
       \/ /\ tpc' = [tpc EXCEPT ![t] = "raised"]
          /\ extensions' = AfterListFailure(extensions)
          /\ UNCHANGED tlist
    /\ UNCHANGED << remote_extensions, last_quantum_extension_sync, now,
                    seen >>
    /\ ExtFrame

\* line 312: the timestamp is written
ExtStamp(t) ==
    /\ tpc[t] = "stamp"
    /\ last_quantum_extension_sync' = now
    /\ tpc' = [tpc EXCEPT ![t] = "clear"]
    /\ UNCHANGED << remote_extensions, extensions, now, list_calls, tlist,
                    seen >>
    /\ ExtFrame

\* line 313: self.extensions.clear()
ExtClear(t) ==
    /\ tpc[t] = "clear"
    /\ extensions' = {}
    /\ tpc' = [tpc EXCEPT ![t] = "assign"]
    /\ UNCHANGED << remote_extensions, last_quantum_extension_sync, now,
                    list_calls, tlist, seen >>
    /\ ExtFrame

\* lines 314-315: the new mapping is assigned
ExtAssign(t) ==
    /\ tpc[t] = "assign"
    /\ extensions' = tlist[t]
    /\ tpc' = [tpc EXCEPT ![t] = "read"]
    /\ UNCHANGED << remote_extensions, last_quantum_extension_sync, now,
                    list_calls, tlist, seen >>
    /\ ExtFrame

\* the other threads that have written the timestamp (line 312) and not yet
\* assigned the mapping they fetched (line 314)
Midway(t) == { u \in Threads \ {t} : tpc[u] \in {"clear", "assign"} }

\* line 320: the query reads the cache; seen.during holds the lists of the
\* refreshes under way at that moment
ExtRead(t) ==
    /\ tpc[t] \in {"read", "hit"}
    /\ seen' = [extensions |-> extensions,
                sync |-> last_quantum_extension_sync,
                during |-> { tlist[u] : u \in Midway(t) },
                read |-> TRUE]
    /\ tpc' = [tpc EXCEPT ![t] = "returned"]
    /\ UNCHANGED << remote_extensions, extensions,
                    last_quantum_extension_sync, now, list_calls, tlist >>
    /\ ExtFrame

\* time.time() grows
Tick ==
    /\ now < MaxTime
    /\ now' = now + 1
    /\ UNCHANGED << remote_extensions, extensions,
                    last_quantum_extension_sync, list_calls, tpc, tlist,
                    seen >>
    /\ ExtFrame

\* the quantum service gains or loses its extension
ExtensionsChange ==
    /\ remote_extensions' \in ExtensionLists \ {remote_extensions}
    /\ UNCHANGED << extensions, last_quantum_extension_sync, now, list_calls,
                    tpc, tlist, seen >>
    /\ ExtFrame

InitExt == Init /\ remote_ports = PrePorts(None)

\* one thread: the queries come one after another
NextExt ==
    \/ ExtQuery("t1")
    \/ ExtList("t1")
    \/ ExtStamp("t1")
    \/ ExtClear("t1")
    \/ ExtAssign("t1")
    \/ ExtRead("t1")
    \/ Tick
    \/ ExtensionsChange

SpecExt == InitExt /\ [][NextExt]_vars

\* the threads query concurrently
NextExtRace ==
    \/ \E t \in Threads : ExtQuery(t)
    \/ \E t \in Threads : ExtList(t)
    \/ \E t \in Threads : ExtStamp(t)
    \/ \E t \in Threads : ExtClear(t)
    \/ \E t \in Threads : ExtAssign(t)
    \/ \E t \in Threads : ExtRead(t)
    \/ Tick
    \/ ExtensionsChange

SpecExtRace == InitExt /\ [][NextExtRace]_vars

\* a query with the refresh starts: the test of lines 307-309 is made
RefreshTested(t) == tpc[t] \in AtRest /\ tpc'[t] \in {"list", "hit"}

\* the last refresh is an interval old or older
CacheStale == now - last_quantum_extension_sync
                  >= quantum_extension_sync_interval

\* C16.  Cache hit: with the queries coming one after another, a
\* list_extensions call is made only when the cache never synced or the
\* last refresh is an interval old or older; once refreshed at time t, no
\* query before t plus the interval makes another.
C16_CacheHit ==
    [][list_calls' > list_calls
       => (last_quantum_extension_sync = NeverSynced \/ CacheStale)]_vars

\* C16's case: refreshed at time 1, a query with the refresh at time 2 finds
\* the cache fresh, and one list_extensions call has been made in all
C16_Witness ==
    /\ tpc["t1"] = "hit"
    /\ last_quantum_extension_sync = 1 /\ now = 2
    /\ list_calls = 1

\* C17.  A query with the refresh goes to the remote
\* service whenever the cached capability set is empty or the last refresh
\* is an interval old or older.
C17_RefreshWhenCacheEmpty ==
    [][\A t \in Threads :
          (RefreshTested(t) /\ (extensions = {} \/ CacheStale))
          => tpc'[t] = "list"]_vars

\* C18.  When list_extensions fails the error leaves the call, the cached
\* mapping and the timestamp are as before the call, and the next query
\* with the refresh goes to the remote service again.
C18_FailedRefreshKeepsCache ==
    [][\A t \in Threads :
          /\ (tpc[t] = "list" /\ tpc'[t] = "raised")
               => /\ extensions' = extensions
                  /\ last_quantum_extension_sync'
                         = last_quantum_extension_sync
          /\ (tpc[t] = "raised" /\ RefreshTested(t))
               => tpc'[t] = "list"]_vars

\* C18's case: the refresh of a stale cache failed and the mapping of the
\* refresh before is still cached
C18_Witness ==
    /\ tpc["t1"] = "raised"
    /\ extensions = {PORTBINDING_EXT}
    /\ last_quantum_extension_sync = 1
    /\ now >= 3

\* C19.  A query never reads the cache of a refresh
\* under way: whenever another thread has written the timestamp and not yet
\* assigned its mapping, what the query reads is that new mapping already.
C19_AtomicReplacement ==
    seen.read => \A fetched \in seen.during : seen.extensions = fetched

---------------------------------------------------------------------------
(* Floating IPs: release_floating_ip (lines 758-775) over the floating IPs *)
(* of the remote service, which are created and bound between the calls.   *)

\* the most floating IPs the remote service holds
MaxFips == 2

\* the ids and addresses of floating IPs; two pools may hold the same
\* address (the note of lines 761-764)
FipIds == {"f1", "f2", "f3"}
FipAddresses == {"198.51.100.1", "198.51.100.2"}

\* the port a floating IP is bound to, None when it is bound to none
FipPorts == {None, "P1", "P2"}

\* a dict without the key k
Without(d, k) == [x \in DOMAIN d \ {k} |-> d[x]]

\* client.list_floatingips(floating_ip_address=address) (line 737)
list_floatingips(fips, address) ==
    { f \in DOMAIN fips : fips[f].address = address }

\* Associated with the test left out
Associated_Never(fip) == FALSE

\* line 773: fip['port_id'] is set
Associated(fip) == fip.port_id # None

\* what the floating-IP steps and the external networks leave alone
FipRest ==
    UNCHANGED << remoteVars, callVars, extensions, last_quantum_extension_sync,
                 info_cache, inputVars, localVars, pc, result, calls, raised,
                 logged, port_seq, nw_info, lifeVars, extVars >>

\* what the floating-IP steps leave alone
FipFrame == FipRest /\ UNCHANGED external_networks

\* the call of release_floating_ip(address) that raises e and issues the
\* calls issued
FipOutcome(address, e, issued) ==
    [op |-> "release_floating_ip", address |-> address, fixed |-> None,
     pool |-> None, before |-> floating_ips, raised |-> e, calls |-> issued]

\* lines 758-775 with _get_floating_ip_by_address (lines 735-743)
ReleaseFloatingIp ==
    \E address \in FipAddresses, ok \in BOOLEAN :
       LET fips == list_floatingips(floating_ips, address)
           fip_id == CHOOSE f \in fips : TRUE
       IN  /\ IF Cardinality(fips) = 0
              THEN /\ ok
                   /\ fip_call' = FipOutcome(address,
                                     "FloatingIpNotFoundForAddress", << >>)
                   /\ floating_ips' = floating_ips
              ELSE IF Cardinality(fips) > 1
              THEN /\ ok
                   /\ fip_call' = FipOutcome(address,
                                     "FloatingIpMultipleFoundForAddress",
                                     << >>)
                   /\ floating_ips' = floating_ips
              ELSE IF Associated(floating_ips[fip_id])
              THEN /\ ok
                   /\ fip_call' = FipOutcome(address,
                                     "FloatingIpAssociated", << >>)
                   /\ floating_ips' = floating_ips
              ELSE IF ok
              THEN /\ fip_call' = FipOutcome(address, None,
                          << Call("delete_floatingip", fip_id, TRUE,
                                  "release") >>)
                   /\ floating_ips' = Without(floating_ips, fip_id)
              ELSE /\ fip_call' = FipOutcome(address,
                          "QuantumClientException:delete_floatingip",
                          << Call("delete_floatingip", fip_id, FALSE,
                                  "release") >>)
                   /\ floating_ips' = floating_ips
           /\ FipFrame

\* line 732, seen from the remote service: a floating IP is created in some
\* pool, bound to no port
FloatingIpCreated ==
    /\ Cardinality(DOMAIN floating_ips) < MaxFips
    /\ \E f \in FipIds \ DOMAIN floating_ips, address \in FipAddresses :
          floating_ips' = [x \in DOMAIN floating_ips \cup {f} |->
                             IF x = f
                             THEN [address |-> address, port_id |-> None,
                                   fixed_ip_address |-> None]
                             ELSE floating_ips[x]]
    /\ fip_call' = NoFipCall
    /\ FipFrame

\* lines 575 and 788, seen from the remote service: a floating IP is bound
\* to a port, and with it to the port's fixed address, or bound to none
FloatingIpUpdated ==
    /\ \E f \in DOMAIN floating_ips, p \in FipPorts :
          /\ floating_ips[f].port_id # p
          /\ floating_ips' =
                [floating_ips EXCEPT
                    ![f].port_id = p,
                    ![f].fixed_ip_address = IF p = None THEN None
                                            ELSE "ipA"]
    /\ fip_call' = NoFipCall
    /\ FipFrame

InitFip == Init /\ remote_ports = PrePorts(None) /\ remote_extensions = {}

NextFip ==
    \/ ReleaseFloatingIp
    \/ FloatingIpCreated
    \/ FloatingIpUpdated

SpecFip == InitFip /\ [][NextFip]_vars

\* the floating IPs that had the address when the last call was made
Matched == list_floatingips(fip_call.before, fip_call.address)

\* C20.  release_floating_ip on an address whose one floating IP is bound to
\* a port raises FloatingIpAssociated, issues no call that deletes or
\* updates, and leaves the floating IPs as they were; the only floating IP
\* a release deletes, or asks to delete, is the one that alone has the
\* address and is bound to no port.
C20_ReleaseOnlyUnbound ==
    fip_call.op = "release_floating_ip" =>
       /\ \A f \in Matched :
             (Matched = {f} /\ fip_call.before[f].port_id # None)
             => /\ fip_call.raised = "FloatingIpAssociated"
                /\ fip_call.calls = << >>
                /\ floating_ips = fip_call.before
       /\ \A i \in DOMAIN fip_call.calls :
             /\ fip_call.calls[i].op = "delete_floatingip"
             /\ Matched = {fip_call.calls[i].port}
             /\ fip_call.before[fip_call.calls[i].port].port_id = None
       /\ \/ floating_ips = fip_call.before
          \/ \E f \in Matched :
                /\ Matched = {f}
                /\ fip_call.before[f].port_id = None
                /\ floating_ips = Without(fip_call.before, f)

\* C20's case: the release of an address whose one floating IP is bound to
\* port P1 raised FloatingIpAssociated, another floating IP standing by
C20_Witness ==
    /\ fip_call.op = "release_floating_ip"
    /\ fip_call.raised = "FloatingIpAssociated"
    /\ \E f \in Matched : fip_call.before[f].port_id = "P1"
    /\ Cardinality(DOMAIN floating_ips) = 2

---------------------------------------------------------------------------
(* associate_floating_ip (lines 560-575) with _get_port_id_by_fixed_address *)
(* (lines 542-557), over the ports of the instance and of another.          *)

FixedAddresses == {"ipA", "ipB"}

\* line 544: the device owner of the instance's ports
Zone(inst) == "compute:" \o inst.availability_zone

\* a port with fixed IPs
AssocPort(network_id, mac, device_id, owner, ips) ==
    [network_id |-> network_id, mac_address |-> mac, tenant_id |-> "T",
     device_id |-> device_id, device_owner |-> owner, fixed_ips |-> ips,
     security_groups |-> << >>, host_id |-> None]

\* the ports there are: q1 is the instance's, q2 is the instance's or
\* another's, and both may carry the same fixed address (on two networks
\* with the same range)
AssocPorts ==
    { [ q1 |-> AssocPort("n1", "m1", "A", "compute:nova", ips1),
        q2 |-> AssocPort("n3", "m2", d, owner, ips2) ] :
        ips1 \in { << >>, << "ipA" >>, << "ipB", "ipA" >> },
        ips2 \in { << "ipA" >>, << "ipB" >> },
        d \in {"A", "B"},
        owner \in {"compute:nova", "compute:other"} }

\* lines 545-548: list_ports(device_id=uuid, device_owner=zone), in any order
ListInstancePorts(rports, inst) ==
    Perms({ p \in DOMAIN rports :
              /\ rports[p].device_id = inst.uuid
              /\ rports[p].device_owner = Zone(inst) })

\* the ports of a listing that carry the fixed address
Carrying(rports, listing, address) ==
    { i \in DOMAIN listing :
        address \in Range(rports[listing[i]].fixed_ips) }

\* the largest number of a set
Last(S) == CHOOSE i \in S : \A j \in S : j <= i

\* lines 549-557: every port of the listing that carries the address
\* overwrites port_id, so the last one stays; None when there is none
get_port_id_by_fixed_address(rports, listing, address) ==
    IF Carrying(rports, listing, address) = {}
    THEN None
    ELSE listing[Last(Carrying(rports, listing, address))]

\* the outcome of associate_floating_ip
AssocOutcome(floating, fixed, e, issued) ==
    [op |-> "associate_floating_ip", address |-> floating, fixed |-> fixed,
     pool |-> None, before |-> floating_ips, raised |-> e, calls |-> issued]

\* lines 560-575
AssociateFloatingIp ==
    \E floating \in FipAddresses, fixed \in FixedAddresses, ok \in BOOLEAN,
       listing \in ListInstancePorts(remote_ports, instance) :
       LET port_id == get_port_id_by_fixed_address(remote_ports, listing,
                                                   fixed)
           fips == list_floatingips(floating_ips, floating)
           fip_id == CHOOSE f \in fips : TRUE
       IN  /\ IF port_id = None
              THEN /\ ok
                   /\ fip_call' = AssocOutcome(floating, fixed,
                                     "FixedIpNotFoundForAddress", << >>)
                   /\ floating_ips' = floating_ips
              ELSE IF Cardinality(fips) = 0
              THEN /\ ok
                   /\ fip_call' = AssocOutcome(floating, fixed,
                                     "FloatingIpNotFoundForAddress", << >>)
                   /\ floating_ips' = floating_ips
              ELSE IF Cardinality(fips) > 1
              THEN /\ ok
                   /\ fip_call' = AssocOutcome(floating, fixed,
                                     "FloatingIpMultipleFoundForAddress",
                                     << >>)
                   /\ floating_ips' = floating_ips
              ELSE IF ok
              THEN /\ fip_call' = AssocOutcome(floating, fixed, None,
                          << Call("update_floatingip", fip_id, TRUE,
                                  "associate") >>)
                   /\ floating_ips' =
                          [floating_ips EXCEPT
                              ![fip_id].port_id = port_id,
                              ![fip_id].fixed_ip_address = fixed]
              ELSE /\ fip_call' = AssocOutcome(floating, fixed,
                          "QuantumClientException:update_floatingip",
                          << Call("update_floatingip", fip_id, FALSE,
                                  "associate") >>)
                   /\ floating_ips' = floating_ips
           /\ FipFrame

\* a floating IP is created, bound to no port, or dropped
FloatingIpSet ==
    \/ FloatingIpCreated
    \/ /\ \E f \in DOMAIN floating_ips :
             floating_ips' = Without(floating_ips, f)
       /\ fip_call' = NoFipCall
       /\ FipFrame

InitAssoc ==
    /\ remote_ports \in AssocPorts
    /\ info_cache = << >>
    /\ user_security_groups = TenantGroups
    /\ remote_extensions = {}
    /\ extensions = {}
    /\ last_quantum_extension_sync = NeverSynced
    /\ instance = LifeInstance
    /\ requested_networks = << >>
    /\ hypervisor_macs = NoMacs
    /\ security_groups = << >>
    /\ pc = "idle"
    /\ ports = EmptyDict
    /\ fixed_ips = EmptyDict
    /\ net_ids = << >>
    /\ nets = << >>
    /\ security_group_ids = << >>
    /\ available_macs = NoMacs
    /\ touched_port_ids = << >>
    /\ created_port_ids = << >>
    /\ idx = 0
    /\ exc = None
    /\ result = NoResult
    /\ calls = << >>
    /\ raised = None
    /\ logged = 0
    /\ InitRest

NextAssoc ==
    \/ AssociateFloatingIp
    \/ FloatingIpSet

SpecAssoc == InitAssoc /\ [][NextAssoc]_vars

\* the ports of the instance that carry the fixed address of the last call
PortsCarrying ==
    { p \in DOMAIN remote_ports :
        /\ remote_ports[p].device_id = instance.uuid
        /\ remote_ports[p].device_owner = Zone(instance)
        /\ fip_call.fixed \in Range(remote_ports[p].fixed_ips) }

\* C21.  associate_floating_ip binds the floating IP only when exactly one
\* port of the instance carries the fixed address and exactly one floating
\* IP has the floating address; with no match or more than one match of
\* either lookup it raises and updates no floating IP.
C21_AssociateUniqueMatches ==
    fip_call.op = "associate_floating_ip" =>
       \/ Cardinality(PortsCarrying) = 1 /\ Cardinality(Matched) = 1
       \/ /\ fip_call.raised # None
          /\ fip_call.calls = << >>
          /\ floating_ips = fip_call.before

---------------------------------------------------------------------------
(* allocate_floating_ip (lines 722-733) with                               *)
(* _get_floating_ip_pool_id_by_name_or_id (lines 704-720).                 *)

\* CONF.default_floating_pool (line 79)
default_floating_pool == "nova"

\* the external networks there may be; two may have the same name
ExternalNetworks ==
    { [id |-> "e1", name |-> "public"], [id |-> "e2", name |-> "public"],
      [id |-> "e3", name |-> "nova"] }

\* the pool argument: None, a name, an id, and names and ids of no network
PoolArguments == {None, "public", "nova", "e1", "e9", "zz"}

\* uuidutils.is_uuid_like on the pool arguments
is_uuid_like(name_or_id) == name_or_id \in {"e1", "e2", "e3", "e9"}

\* lines 705-711: list_networks(router:external=True, id= or name=)
ListPools(externals, name_or_id) ==
    IF is_uuid_like(name_or_id)
    THEN { n \in externals : n.id = name_or_id }
    ELSE { n \in externals : n.name = name_or_id }

\* PoolError with the first of several pools taken
PoolError_FirstTaken(pools) ==
    IF Cardinality(pools) = 0 THEN "FloatingIpPoolNotFound" ELSE None

\* lines 713-720: the exception for the pools found, None for one pool
PoolError(pools) ==
    IF Cardinality(pools) = 1 THEN None
    ELSE IF Cardinality(pools) = 0 THEN "FloatingIpPoolNotFound"
    ELSE "NovaException:Multiple floating IP pools matches found"

\* the outcome of allocate_floating_ip
AllocFipOutcome(pool, e, issued) ==
    [op |-> "allocate_floating_ip", address |-> None, fixed |-> None,
     pool |-> pool, before |-> floating_ips, raised |-> e, calls |-> issued]

\* lines 722-733; create_floatingip, asked for a floating IP in the pool
\* (the port field of the call entry holds the pool id), gives it an id and
\* an address, or fails (the quota error of line 730)
AllocateFloatingIp ==
    \E pool \in PoolArguments, ok \in BOOLEAN :
       LET name_or_id == IF pool = None THEN default_floating_pool ELSE pool
           pools == ListPools(external_networks, name_or_id)
       IN  /\ IF PoolError(pools) # None
              THEN /\ ok
                   /\ fip_call' = AllocFipOutcome(pool, PoolError(pools),
                                                  << >>)
                   /\ floating_ips' = floating_ips
              ELSE IF ok /\ Cardinality(DOMAIN floating_ips) < MaxFips
              THEN \E f \in FipIds \ DOMAIN floating_ips,
                      address \in FipAddresses :
                      /\ fip_call' = AllocFipOutcome(pool, None,
                             << Call("create_floatingip",
                                     (CHOOSE n \in pools : TRUE).id, TRUE,
                                     "allocate_floating_ip") >>)
                      /\ floating_ips' =
                             Put(floating_ips, f,
                                 [address |-> address, port_id |-> None,
                                  fixed_ip_address |-> None])
              ELSE /\ ~ok
                   /\ fip_call' = AllocFipOutcome(pool,
                          "QuantumClientException:create_floatingip",
                          << Call("create_floatingip",
                                  (CHOOSE n \in pools : TRUE).id, FALSE,
                                  "allocate_floating_ip") >>)
                   /\ floating_ips' = floating_ips
           /\ FipFrame

\* an external network is added to the remote service or taken from it
ExternalNetworksChange ==
    /\ \E n \in ExternalNetworks :
          external_networks' = IF n \in external_networks
                               THEN external_networks \ {n}
                               ELSE external_networks \cup {n}
    /\ UNCHANGED floating_ips
    /\ fip_call' = NoFipCall
    /\ FipRest

NextPool ==
    \/ AllocateFloatingIp
    \/ ExternalNetworksChange
    \/ FloatingIpSet

SpecPool == InitFip /\ [][NextPool]_vars

\* the external networks the pool argument of the last call stands for
PoolsAsked ==
    ListPools(external_networks,
              IF fip_call.pool = None THEN default_floating_pool
              ELSE fip_call.pool)

\* C22.  allocate_floating_ip asks for a floating IP only when the pool name
\* or id stands for exactly one external network, and asks for it in that
\* network; with no such network it raises FloatingIpPoolNotFound, with
\* more than one it raises another error, and in both cases it issues no
\* create and the floating IPs are as before.
C22_PoolFailsClosed ==
    fip_call.op = "allocate_floating_ip" =>
       /\ Cardinality(PoolsAsked) = 0
            => /\ fip_call.raised = "FloatingIpPoolNotFound"
               /\ fip_call.calls = << >>
               /\ floating_ips = fip_call.before
       /\ Cardinality(PoolsAsked) > 1
            => /\ fip_call.raised \notin {None, "FloatingIpPoolNotFound"}
               /\ fip_call.calls = << >>
               /\ floating_ips = fip_call.before
       /\ \A i \in DOMAIN fip_call.calls :
             PoolsAsked = { n \in external_networks :
                              n.id = fip_call.calls[i].port }

\* C22's case: two external networks have the name asked for, a third
\* stands by, and the call raised without creating
C22_Witness ==
    /\ fip_call.op = "allocate_floating_ip"
    /\ fip_call.pool = "public"
    /\ Cardinality(PoolsAsked) = 2
    /\ Cardinality(external_networks) = 3
    /\ fip_call.raised # None

---------------------------------------------------------------------------
(* validate_networks (lines 459-490).                                      *)

\* the entries of the requests validated: those of the allocations, and a
\* port that does not exist
ValidateEntries == ReqEntries \cup { << None, None, "P9" >> }

\* show_port for a port that does not exist: the client raises its 404
\* error, or the answer holds no port
MissingPortAnswers == {"raise", "empty"}

\* lines 467-478 for one entry: the exception raised, or the network id
\* appended to net_ids
ValidateEntry(st, entry, rports, missing) ==
    LET port_id == entry[3]
        net_id == IF port_id # None /\ port_id \in DOMAIN rports
                  THEN rports[port_id].network_id
                  ELSE entry[1]
    IN  IF port_id # None /\ port_id \notin DOMAIN rports
        THEN [st EXCEPT !.err = IF missing = "raise"
                                THEN "QuantumClientException:show_port"
                                ELSE "PortNotFound"]
        ELSE IF port_id # None /\ rports[port_id].device_id # None
        THEN [st EXCEPT !.err = "PortInUse"]
        ELSE IF net_id \in Range(st.net_ids)
        THEN [st EXCEPT !.err = "NetworkDuplicated"]
        ELSE [st EXCEPT !.net_ids = Append(@, net_id)]

RECURSIVE ValidateFrom(_, _, _, _)
ValidateFrom(st, reqs, rports, missing) ==
    IF reqs = << >> \/ st.err # None THEN st
    ELSE ValidateFrom(ValidateEntry(st, Head(reqs), rports, missing),
                      Tail(reqs), rports, missing)

\* lines 459-490: the exception validate_networks raises, None when it
\* returns; available is what _get_available_networks returned
validate_networks(reqs, rports, missing, available) ==
    LET st == ValidateFrom([err |-> None, net_ids |-> << >>], reqs, rports,
                           missing)
    IN  IF reqs = << >> THEN None
        ELSE IF st.err # None THEN st.err
        ELSE IF Len(available) # Len(st.net_ids) THEN "NetworkNotFound"
        ELSE None

\* the net_ids of a request the loop of lines 467-478 runs through
ValidatedNetIds(reqs, rports) ==
    ValidateFrom([err |-> None, net_ids |-> << >>], reqs, rports,
                 "empty").net_ids

\* what a call that issues no floating-IP call leaves alone
CallFrame ==
    UNCHANGED << remoteVars, extensions, last_quantum_extension_sync,
                 info_cache, inputVars, localVars, pc, result, calls, raised,
                 logged, port_seq, nw_info, lifeVars, extVars, fipVars, notified >>

\* the call of validate_networks
ValidateNetworks ==
    /\ \E reqs \in SeqUpTo(ValidateEntries, MaxReq),
          missing \in MissingPortAnswers :
          \E available \in get_available_networks(instance.project_id,
                               ValidatedNetIds(reqs, remote_ports)) :
             api_call' = [op |-> "validate_networks", args |-> reqs,
                          before |-> remote_ports,
                          raised |-> validate_networks(reqs, remote_ports,
                                                       missing, available),
                          calls |-> << >>]
    /\ CallFrame

NextValidate == ValidateNetworks

SpecValidate == Init /\ [][NextValidate]_vars

\* the network entry i of the validated request asks for, None for a port
\* that does not exist
AskedNet(i) ==
    LET entry == api_call.args[i]
    IN  IF entry[3] = None THEN entry[1]
        ELSE IF entry[3] \in DOMAIN remote_ports
        THEN remote_ports[entry[3]].network_id
        ELSE None

\* a port named in the validated request does not exist
PortMissing ==
    \E i \in DOMAIN api_call.args :
       /\ api_call.args[i][3] # None
       /\ api_call.args[i][3] \notin DOMAIN remote_ports

\* a port named in the validated request has a device id
PortTaken ==
    \E i \in DOMAIN api_call.args :
       /\ api_call.args[i][3] \in DOMAIN remote_ports
       /\ remote_ports[api_call.args[i][3]].device_id # None

\* a network id occurs twice in the validated request
NetworkTwice ==
    \E i, j \in DOMAIN api_call.args :
       i < j /\ AskedNet(i) # None /\ AskedNet(i) = AskedNet(j)

\* a network id of the validated request is not among the networks the
\* tenant can use
NetworkUnavailable ==
    \E i \in DOMAIN api_call.args :
       /\ AskedNet(i) # None
       /\ ~ \/ Networks[AskedNet(i)].shared
            \/ Networks[AskedNet(i)].tenant_id = instance.project_id

\* C23.  validate_networks returns without error if and only if every port
\* named exists and has no device id, no network id occurs twice and every
\* network id is among the networks the tenant can use; otherwise what it
\* raises is PortNotFound, PortInUse, NetworkDuplicated or NetworkNotFound,
\* for a missing port, a port in use, a network twice and a network the
\* tenant cannot use.
C23_ValidateNetworks ==
    api_call.op = "validate_networks" =>
       /\ api_call.raised = None
            <=> ~(PortMissing \/ PortTaken \/ NetworkTwice
                  \/ NetworkUnavailable)
       /\ api_call.raised \in {None, "PortNotFound", "PortInUse",
                                "NetworkDuplicated", "NetworkNotFound"}
       /\ api_call.raised = "PortNotFound" => PortMissing
       /\ api_call.raised = "PortInUse" => PortTaken
       /\ api_call.raised = "NetworkDuplicated" => NetworkTwice
       /\ api_call.raised = "NetworkNotFound" => NetworkUnavailable

---------------------------------------------------------------------------
(* migrate_instance_start and migrate_instance_finish (lines 790-816).     *)

\* the ports there are when the instance migrates: P1 and x1 are the
\* tenant's, P2 was made by another tenant on the shared network; each may
\* be the instance's
MigratePorts ==
    { [BuildPorts(d1, d3) EXCEPT !["P2"].device_id = d2] :
        d1 \in {"A", "B"}, d2 \in {None, "A"}, d3 \in {None, "A"} }

\* line 320: the cache holds the port binding extension
has_port_binding_extension(exts) == PORTBINDING_EXT \in exts

\* lines 809-816: update_port on the ports of the listing in turn, up to
\* the first that fails
RECURSIVE UpdateHosts(_, _, _, _)
UpdateHosts(rports, listing, host, failed_at) ==
    IF listing = << >> \/ failed_at = 1 THEN rports
    ELSE UpdateHosts([rports EXCEPT ![Head(listing).id].host_id = host],
                     Tail(listing), host, failed_at - 1)

\* the update_port calls issued when the call at failed_at fails
MigrateCalls(listing, failed_at) ==
    [i \in 1..(IF failed_at <= Len(listing) THEN failed_at
               ELSE Len(listing)) |->
        Call("update_port", listing[i].id, i # failed_at, "migrate")]

\* the outcome of a migration call
MigrateOutcome(name, e, issued) ==
    [op |-> name, args |-> << >>, before |-> remote_ports, raised |-> e,
     calls |-> issued]

\* lines 790-794
MigrateInstanceStart ==
    /\ api_call' = MigrateOutcome("migrate_instance_start", None, << >>)
    /\ CallFrame

\* what migrate_instance_finish leaves alone
MigrateFrame ==
    UNCHANGED << user_security_groups, remote_extensions, inputVars,
                 localVars, pc, result, calls, raised, logged, port_seq,
                 nw_info, lifeVars, now, tpc, tlist, seen, fipVars, notified >>

\* lines 802-816: the network info is built and cached, the instance's
\* ports are listed and the host of each is set, up to the first update
\* that fails; each of the lookups may fail
MigratePortsUpdated ==
    \/ /\ api_call' = MigrateOutcome("migrate_instance_finish",
                                      "QuantumClientException:nw_info",
                                      << >>)
       /\ UNCHANGED << remote_ports, info_cache >>
    \/ \E snapshot \in list_ports(remote_ports, instance.project_id,
                                  instance.uuid),
          available \in get_available_networks(instance.project_id, << >>) :
          /\ info_cache' = refresh_cache(info_cache,
                               build_from_cache(snapshot, available,
                                                info_cache))
          /\ \/ /\ api_call' = MigrateOutcome(
                         "migrate_instance_finish",
                         "QuantumClientException:list_ports", << >>)
                /\ UNCHANGED remote_ports
             \/ \E listing \in list_ports(remote_ports, instance.project_id,
                                          instance.uuid) :
                   \E failed_at \in 1..(Len(listing) + 1) :
                      /\ remote_ports' = UpdateHosts(remote_ports, listing,
                                                     instance.host,
                                                     failed_at)
                      /\ api_call' = MigrateOutcome(
                            "migrate_instance_finish",
                            IF failed_at <= Len(listing)
                            THEN "QuantumClientException:update_port"
                            ELSE None,
                            MigrateCalls(listing, failed_at))

\* lines 796-816, with the refresh of the extension cache (lines 306-315)
\* that line 799 asks for
MigrateInstanceFinish ==
    /\ list_calls < MaxListCalls
    /\ \E ext_ok \in BOOLEAN :
          LET due == RefreshDue(last_quantum_extension_sync, now)
          IN  /\ due \/ ext_ok
              /\ list_calls' = IF due THEN list_calls + 1 ELSE list_calls
              /\ IF due /\ ~ext_ok
                 THEN /\ extensions' = AfterListFailure(extensions)
                      /\ UNCHANGED << last_quantum_extension_sync,
                                      remote_ports, info_cache >>
                      /\ api_call' = MigrateOutcome(
                            "migrate_instance_finish",
                            "QuantumClientException:list_extensions", << >>)
                 ELSE /\ extensions' = IF due THEN remote_extensions
                                       ELSE extensions
                      /\ last_quantum_extension_sync' =
                            IF due THEN now ELSE last_quantum_extension_sync
                      /\ IF ~has_port_binding_extension(extensions')
                         THEN /\ UNCHANGED << remote_ports, info_cache >>
                              /\ api_call' = MigrateOutcome(
                                    "migrate_instance_finish", None, << >>)
                         ELSE MigratePortsUpdated
    /\ MigrateFrame

InitMigrate ==
    /\ remote_ports \in MigratePorts
    /\ info_cache \in { << >>, << VIF("P1", "m1", "n1", "net1") >> }
    /\ user_security_groups = TenantGroups
    /\ remote_extensions \in ExtensionLists
    /\ extensions = {}
    /\ last_quantum_extension_sync = NeverSynced
    /\ instance = LifeInstance
    /\ requested_networks = << >>
    /\ hypervisor_macs = NoMacs
    /\ security_groups = << >>
    /\ pc = "idle"
    /\ ports = EmptyDict
    /\ fixed_ips = EmptyDict
    /\ net_ids = << >>
    /\ nets = << >>
    /\ security_group_ids = << >>
    /\ available_macs = NoMacs
    /\ touched_port_ids = << >>
    /\ created_port_ids = << >>
    /\ idx = 0
    /\ exc = None
    /\ result = NoResult
    /\ calls = << >>
    /\ raised = None
    /\ logged = 0
    /\ InitRest

NextMigrate ==
    \/ MigrateInstanceStart
    \/ MigrateInstanceFinish
    \/ Tick
    \/ ExtensionsChange

SpecMigrate == InitMigrate /\ [][NextMigrate]_vars

\* the ports the instance owns: those whose device id is the instance's
OwnedPorts == PortsOfDevice(remote_ports, instance.uuid)

\* C24.  migrate_instance_finish issues no port update when the cache shows
\* no port binding extension; when it shows one and the call returns
\* normally, every port whose device id is the instance's has the
\* instance's host as its binding host; migrate_instance_start issues no
\* call and leaves the remote ports as they were.
C24_MigrateRebindsHost ==
    /\ api_call.op = "migrate_instance_finish"
         => /\ ~has_port_binding_extension(extensions)
                 => /\ api_call.calls = << >>
                    /\ remote_ports = api_call.before
            /\ (has_port_binding_extension(extensions)
                 /\ api_call.raised = None)
                 => \A p \in OwnedPorts :
                       remote_ports[p].host_id = instance.host
    /\ api_call.op = "migrate_instance_start"
         => /\ api_call.calls = << >>
            /\ remote_ports = api_call.before

---------------------------------------------------------------------------
(* deallocate_for_instance (lines 331-345) on its own, over the ports      *)
(* there may be.                                                           *)

NextDealloc == DeallocateForInstance

SpecDealloc == InitMigrate /\ [][NextDealloc]_vars

\* the delete_port calls issued for port p
DeletesOf(issued, p) ==
    { i \in DOMAIN issued :
        issued[i].op = "delete_port" /\ issued[i].port = p }

\* C25.  deallocate_for_instance that got its list of ports issues
\* delete_port exactly once for every port the remote service holds with
\* the instance's device id and for no other port, whichever deletes fail,
\* and returns; when no delete fails no port with that device id is left.
\* It raises only when the ports cannot be listed.
C25_DeleteEachPortOnce ==
    [][(op' = "deallocate" /\ ncalls' = ncalls + 1)
       => LET listed == PortsOfDevice(remote_ports, instance.uuid)
          IN  \/ /\ result' = Raise("QuantumClientException:list_ports")
                 /\ calls' = << >>
              \/ /\ result' = Return(<< >>)
                 /\ \A p \in listed :
                       Cardinality(DeletesOf(calls', p)) = 1
                 /\ \A i \in DOMAIN calls' :
                       /\ calls'[i].op = "delete_port"
                       /\ calls'[i].port \in listed
                 /\ (\A i \in DOMAIN calls' : calls'[i].ok)
                       => PortsOfDevice(remote_ports', instance.uuid) = {}
                 /\ \A p \in listed :
                       p \in DOMAIN remote_ports'
                       <=> \E i \in DOMAIN calls' :
                              calls'[i].port = p /\ ~calls'[i].ok]_vars

\* C25's case: the first delete of two failed, the second was made and the
\* call returned
C25_Witness ==
    /\ Returned /\ op = "deallocate"
    /\ Len(calls) = 2
    /\ ~calls[1].ok /\ calls[2].ok

\* C26.  allocate_for_instance on an instance whose project id is empty
\* raises InvalidInput before any remote call: no port was looked up, no
\* network and no extension listed, no port created or updated, and the
\* remote ports are those there were.
C26_EmptyProjectRejected ==
    (pc # "idle" /\ instance.project_id = "")
    => /\ Raised("InvalidInput")
       /\ calls = << >>
       /\ ports = EmptyDict /\ net_ids = << >> /\ nets = << >>
       /\ last_quantum_extension_sync = NeverSynced
       /\ port_seq = 0
       /\ \E d \in {None, "A"} : remote_ports = PrePorts(d)

\* C26's case: the request names a port the hypervisor cannot use and a
\* network, and the call raised InvalidInput
C26_Witness ==
    /\ Raised("InvalidInput")
    /\ requested_networks = << << None, None, "P1" >>, << "n2", None, None >> >>
    /\ hypervisor_macs = {"m3"}
    /\ security_groups = << "zz" >>

\* the create_port and update_port calls of the loop over the networks
AllocateCalls == SelectSeq(calls, LAMBDA c : c.phase = "allocate")

\* the compensating calls issued for port p
CompensationsOf(p) ==
    { i \in DOMAIN RollbackCalls : RollbackCalls[i].port = p }

\* C27.  An allocation attempt ends committed or rolled back, without a
\* retry: it issues at most one create_port or update_port per resolved
\* network; when no per-network step failed it has issued no compensating
\* call; when a per-network step failed after it created or re-bound a
\* port, every touched port has had exactly one unbinding update and every
\* created port exactly one delete, no other compensating call was issued,
\* and every update came before every delete.
C27_CommittedOrRolledBack ==
    /\ Len(AllocateCalls) <= Len(nets)
    /\ (Done /\ raised = None) => RollbackCalls = << >>
    /\ (Done /\ raised # None /\ PortsOfCall # {})
         => /\ result = Raise(raised)
            /\ \A p \in PortsOfCall : Cardinality(CompensationsOf(p)) = 1
            /\ \A i \in DOMAIN RollbackCalls :
                  /\ RollbackCalls[i].port \in PortsOfCall
                  /\ RollbackCalls[i].op =
                        IF RollbackCalls[i].port \in Range(touched_port_ids)
                        THEN "update_port" ELSE "delete_port"
            /\ \A i, j \in DOMAIN RollbackCalls :
                  (RollbackCalls[i].op = "update_port"
                   /\ RollbackCalls[j].op = "delete_port") => i < j

\* C28.  allocate_for_instance triggers the security group notifications
\* only when every resolved network has been processed successfully: the
\* call has then issued one successful create_port or update_port per
\* network and no compensating call; an attempt in which a per-network step
\* failed triggers none, and a failed create_port or update_port is the
\* last one the attempt issues.
C28_NotifyAfterAllNetworks ==
    /\ notified # << >>
         => /\ pc = "done"
            /\ raised = None
            /\ RollbackCalls = << >>
            /\ Len(AllocateCalls) = Len(nets)
            /\ \A i \in DOMAIN AllocateCalls : AllocateCalls[i].ok
    /\ raised # None => notified = << >>
    /\ \A i \in DOMAIN AllocateCalls :
          ~AllocateCalls[i].ok => i = Len(AllocateCalls)

\* C28's case: two networks were processed and the notifications were
\* triggered
C28_Witness ==
    /\ Returned
    /\ notified = Triggered("instance_add_security_group")
    /\ Len(nets) = 2
    /\ Len(AllocateCalls) = 2

---------------------------------------------------------------------------
(* _build_network_info_model (lines 823-931) called with the networks or   *)
(* without them, over any cached network info and the instance's ports;    *)
(* the lookup of each port's network (lines 870-876, 914-920) is followed  *)
(* step by step.                                                           *)

\* the ports there are: those of BuildPorts and x9, a port of the tenant on
\* n4, a network the tenant no longer sees
StalePorts ==
    { Put(BuildPorts(d1, d2), "x9",
          [network_id |-> "n4", mac_address |-> "m9", tenant_id |-> "T",
           device_id |-> d3, device_owner |-> None, fixed_ips |-> << >>,
           security_groups |-> << >>, host_id |-> None]) :
        d1 \in {None, "A"}, d2 \in {None, "A"}, d3 \in {None, "A"} }

\* the first network of the list with the id, 0 if there is none
NetworkIndex(networks, network_id) ==
    IF \E i \in DOMAIN networks : networks[i].id = network_id
    THEN CHOOSE i \in DOMAIN networks :
            /\ networks[i].id = network_id
            /\ \A j \in 1..(i - 1) : networks[j].id # network_id
    ELSE 0

\* lines 870-876 and 914-920 for the ports in turn.  network_name is
\* assigned only when a network of the list has the port's network id, and
\* net is left at the last network of the list when none has: the record
\* of a port whose network is not found takes the name found for the port
\* before and the tenant of the last network, and with no name assigned
\* yet line 917 raises UnboundLocalError.
RECURSIVE LookupFrom(_, _, _, _)
LookupFrom(ordered, networks, network_name, records) ==
    IF ordered = << >> THEN [err |-> None, records |-> records]
    ELSE LET port == Head(ordered)
             i == NetworkIndex(networks, port.network_id)
         IN  IF i # 0
             THEN LookupFrom(Tail(ordered), networks, networks[i].name,
                     Append(records,
                            [port |-> port.id,
                             network_id |-> port.network_id,
                             label |-> networks[i].name,
                             tenant_id |-> networks[i].tenant_id]))
             ELSE IF network_name = None
             THEN [err |-> "UnboundLocalError", records |-> records]
             ELSE LookupFrom(Tail(ordered), networks, network_name,
                     Append(records,
                            [port |-> port.id,
                             network_id |-> port.network_id,
                             label |-> network_name,
                             tenant_id |->
                                 networks[Len(networks)].tenant_id]))

\* lines 866-868: the ports on one of the networks of net_ids, in their order
KeptPorts(listing, ids) ==
    ensure_requested_network_ordering("network_id",
        SelectSeq(listing, LAMBDA p : p.network_id \in Range(ids)), ids)

\* the outcome of a build: the ids the ports were filtered by, what was
\* raised, and the records built for the ports
BuildOutcome(name, ids, built) ==
    [op |-> name, args |-> ids, before |-> remote_ports,
     raised |-> built.err, calls |-> built.records]

\* lines 823-931: the build with the networks given, and the build without
\* them, which takes net_ids from the cached network info (lines 833-838)
\* and the networks from _get_available_networks (lines 839-840)
BuildNetworkInfo ==
    /\ \E listing \in list_ports(remote_ports, instance.project_id,
                                  instance.uuid) :
          \/ \E networks \in NetworkLists :
                LET ids == [i \in DOMAIN networks |-> networks[i].id]
                IN  api_call' = BuildOutcome("build with networks", ids,
                                   LookupFrom(KeptPorts(listing, ids),
                                              networks, None, << >>))
          \/ \E networks \in get_available_networks(instance.project_id,
                                                     << >>) :
                LET ids == [i \in DOMAIN info_cache |->
                               info_cache[i].network_id]
                IN  api_call' = BuildOutcome("build from cache", ids,
                                   LookupFrom(KeptPorts(listing, ids),
                                              networks, None, << >>))
    /\ CallFrame

InitNwInfo ==
    /\ remote_ports \in StalePorts
    /\ info_cache \in SeqUpTo(CacheRecords, MaxCached)
    /\ user_security_groups = TenantGroups
    /\ remote_extensions = {}
    /\ extensions = {}
    /\ last_quantum_extension_sync = NeverSynced
    /\ instance = LifeInstance
    /\ requested_networks = << >>
    /\ hypervisor_macs = NoMacs
    /\ security_groups = << >>
    /\ pc = "idle"
    /\ ports = EmptyDict
    /\ fixed_ips = EmptyDict
    /\ net_ids = << >>
    /\ nets = << >>
    /\ security_group_ids = << >>
    /\ available_macs = NoMacs
    /\ touched_port_ids = << >>
    /\ created_port_ids = << >>
    /\ idx = 0
    /\ exc = None
    /\ result = NoResult
    /\ calls = << >>
    /\ raised = None
    /\ logged = 0
    /\ InitRest

NextNwInfo == BuildNetworkInfo

SpecNwInfo == InitNwInfo /\ [][NextNwInfo]_vars

\* the last call was a build of the network info
Built == api_call.op \in {"build with networks", "build from cache"}

\* C29.  In _build_network_info_model the lookup of a port's network does
\* not fail: the build raises no error of its own, it makes a record for
\* every port of the instance on one of the networks it filters by, and
\* the label and the tenant id of each record are those of the network the
\* port is on, with the networks given and with the networks derived from
\* the cached network info and the tenant's available networks.
C29_NetworkLookupCannotFail ==
    Built =>
       /\ api_call.raised = None
       /\ \A i \in DOMAIN api_call.calls :
             LET r == api_call.calls[i]
             IN  /\ r.network_id = remote_ports[r.port].network_id
                 /\ r.label = Networks[r.network_id].name
                 /\ r.tenant_id = Networks[r.network_id].tenant_id
       /\ \A p \in DOMAIN remote_ports :
             (/\ remote_ports[p].device_id = instance.uuid
              /\ remote_ports[p].tenant_id = instance.project_id
              /\ remote_ports[p].network_id \in Range(api_call.args))
             => \E i \in DOMAIN api_call.calls : api_call.calls[i].port = p

---------------------------------------------------------------------------
(* The floating IPs of the snapshot: lines 878-886 of                      *)
(* _build_network_info_model with _get_floating_ips_by_fixed_and_port      *)
(* (lines 745-756), over the ports and floating IPs there may be.          *)

\* the status of the answer to list_floatingips: 200, 404 from a plugin
\* without the L3 API, or another error status
LookupStatuses == {200, 404, 500}

\* LookupAnswer with every failed lookup taken for an empty answer
LookupAnswer_AllSwallowed(status, found) ==
    IF status = 200 THEN [err |-> None, floats |-> found]
    ELSE [err |-> None, floats |-> {}]

\* lines 747-756: the floating IPs found; a QuantumClientException with
\* status 404 gives the empty list, any other is raised again
LookupAnswer(status, found) ==
    IF status = 200 THEN [err |-> None, floats |-> found]
    ELSE IF status = 404 THEN [err |-> None, floats |-> {}]
    ELSE [err |-> "QuantumClientException", floats |-> {}]

\* list_floatingips(fixed_ip_address=fixed, port_id=port) (lines 748-749):
\* the addresses of the floating IPs bound to the port and fixed address
FloatsBound(fips, fixed, port_id) ==
    { fips[f].address :
        f \in { g \in DOMAIN fips :
                  /\ fips[g].port_id = port_id
                  /\ fips[g].fixed_ip_address = fixed } }

\* the lookups of lines 879-882, in order: one for each fixed IP of each
\* port
RECURSIVE FixedIpLookups(_, _)
FixedIpLookups(ordered, rports) ==
    IF ordered = << >> THEN << >>
    ELSE [i \in DOMAIN rports[Head(ordered).id].fixed_ips |->
             [port |-> Head(ordered).id,
              fixed |-> rports[Head(ordered).id].fixed_ips[i]]]
         \o FixedIpLookups(Tail(ordered), rports)

\* lines 878-886 for the lookups in turn: each fixed IP gets the floating
\* IPs found, and the first lookup that raises ends the build
RECURSIVE FloatsFrom(_, _, _, _)
FloatsFrom(lookups, statuses, fips, records) ==
    IF lookups = << >> THEN [err |-> None, records |-> records]
    ELSE LET l == Head(lookups)
             a == LookupAnswer(Head(statuses),
                               FloatsBound(fips, l.fixed, l.port))
         IN  IF a.err # None THEN [err |-> a.err, records |-> << >>]
             ELSE FloatsFrom(Tail(lookups), Tail(statuses), fips,
                     Append(records,
                            [port |-> l.port, fixed |-> l.fixed,
                             floats |-> a.floats]))

\* the build of the fixed and floating IPs of the instance's ports on the
\* networks n1 and n3; args holds the lookups made with the status of each
BuildFloatingIps ==
    /\ \E listing \in list_ports(remote_ports, instance.project_id,
                                  instance.uuid) :
          LET lookups == FixedIpLookups(KeptPorts(listing, << "n1", "n3" >>),
                                        remote_ports)
          IN  \E statuses \in [DOMAIN lookups -> LookupStatuses] :
                 LET built == FloatsFrom(lookups, statuses, floating_ips,
                                         << >>)
                 IN  api_call' =
                        [op |-> "build floating ips",
                         args |-> [i \in DOMAIN lookups |->
                                      [port |-> lookups[i].port,
                                       fixed |-> lookups[i].fixed,
                                       status |-> statuses[i]]],
                         before |-> remote_ports,
                         raised |-> built.err,
                         calls |-> built.records]
    /\ CallFrame

\* the floating IPs there may be while the snapshot is built, each with its
\* address
BuildFipIds == {"f1", "f2"}
BuildFipAddress == [f \in BuildFipIds |->
                       IF f = "f1" THEN "198.51.100.1" ELSE "198.51.100.2"]

\* a floating IP is created, dropped or bound: the build that came before
\* is over
FloatingIpsChange ==
    /\ \/ /\ Cardinality(DOMAIN floating_ips) < MaxFips
          /\ \E f \in BuildFipIds \ DOMAIN floating_ips :
                floating_ips' = Put(floating_ips, f,
                                    [address |-> BuildFipAddress[f],
                                     port_id |-> None,
                                     fixed_ip_address |-> None])
       \/ \E f \in DOMAIN floating_ips :
             floating_ips' = Without(floating_ips, f)
       \/ \E f \in DOMAIN floating_ips, p \in {"q1", "q2"},
             fixed \in FixedAddresses :
             /\ fixed \in Range(remote_ports[p].fixed_ips)
             /\ floating_ips[f].port_id = None
             /\ floating_ips' =
                   [floating_ips EXCEPT ![f].port_id = p,
                                        ![f].fixed_ip_address = fixed]
    /\ api_call' = NoApiCall
    /\ UNCHANGED << remoteVars, extensions, last_quantum_extension_sync,
                    info_cache, inputVars, localVars, pc, result, calls,
                    raised, logged, port_seq, nw_info, lifeVars, extVars,
                    fip_call, external_networks, notified >>

NextFloats ==
    \/ BuildFloatingIps
    \/ FloatingIpsChange

SpecFloats == InitAssoc /\ [][NextFloats]_vars

\* the last call built the floating IPs
FloatsBuilt == api_call.op = "build floating ips"

\* C30.  While the snapshot is built, a lookup of floating IPs answered
\* with status 404 counts as the empty list and the build goes on; with
\* every lookup answered or 404 the build gives each fixed IP of each port
\* its record, with the floating IPs bound to it or, after a 404, with
\* none.  A lookup that fails with another status makes the build raise,
\* and no snapshot is returned.
C30_MissingFloatingIpApi ==
    FloatsBuilt =>
       IF \A i \in DOMAIN api_call.args : api_call.args[i].status \in {200, 404}
       THEN /\ api_call.raised = None
            /\ DOMAIN api_call.calls = DOMAIN api_call.args
            /\ \A i \in DOMAIN api_call.args :
                  LET l == api_call.args[i]
                      r == api_call.calls[i]
                  IN  /\ r.port = l.port /\ r.fixed = l.fixed
                      /\ r.floats = IF l.status = 404 THEN {}
                                    ELSE FloatsBound(floating_ips, l.fixed,
                                                     l.port)
       ELSE /\ api_call.raised = "QuantumClientException"
            /\ api_call.calls = << >>

\* C30's case: the lookup for the first fixed IP was answered 404 although
\* a floating IP is bound to it, the build went on and found the floating
\* IP of the second
C30_Witness ==
    /\ FloatsBuilt
    /\ Len(api_call.args) >= 2
    /\ api_call.args[1].status = 404
    /\ FloatsBound(floating_ips, api_call.args[1].fixed,
                   api_call.args[1].port) # {}
    /\ api_call.raised = None
    /\ api_call.calls[2].floats # {}

---------------------------------------------------------------------------
(* The port ids of a snapshot: every snapshot _build_network_info_model    *)
(* builds is stored in the instance's cache by refresh_cache, so the cache *)
(* holds the last snapshot built.                                          *)

\* the snapshot holds the port id in more than one record
Duplicated(info) ==
    { info[i].id : i \in { k \in DOMAIN info :
                             \E j \in DOMAIN info :
                                j # k /\ info[j].id = info[k].id } }

\* C31.  No port id appears in more than one record of a snapshot built
\* by _build_network_info_model, after any sequence of allocations,
\* interface attaches and get_instance_nw_info calls, also when the
\* instance already has a cached interface on the network of the attach.
C31_PortIdOncePerSnapshot ==
    (pc = "done" /\ Returned) => Duplicated(info_cache) = {}

---------------------------------------------------------------------------
(* The MAC pool of one allocate_for_instance call (lines 144-150, 166-175  *)
(* and 260-265).                                                           *)

\* the ports the call created that are still there
CreatedPorts == Range(created_port_ids) \cap DOMAIN remote_ports

\* the MACs of the pre-supplied ports the call reuses
ReusedMacs == { remote_ports[ports[n]].mac_address : n \in DOMAIN ports }

\* the MACs of the ports the call created
CreatedMacs == { remote_ports[p].mac_address : p \in CreatedPorts }

\* what holds of the pool in every state of a call with hypervisor MACs
MacPoolKept ==
    (pc # "idle" /\ hypervisor_macs # NoMacs /\ ~EmptyProject(instance)) =>
        /\ CreatedMacs \subseteq hypervisor_macs
        /\ \A p, q \in CreatedPorts :
              p # q => remote_ports[p].mac_address
                         # remote_ports[q].mac_address
        /\ CreatedMacs \cap ReusedMacs = {}
        /\ available_macs \subseteq hypervisor_macs
        /\ available_macs \cap (CreatedMacs \cup ReusedMacs) = {}

\* C32.  Within one allocate_for_instance call with a hypervisor MAC pool,
\* every created port has a MAC of the supplied set, no two created ports
\* have the same MAC, no created port has the MAC of a pre-supplied port
\* the call reuses, the pool of the call only ever holds unused MACs of the
\* set, and the caller's set stays as it was given for the whole call.
C32_MacPoolOfTheCall ==
    /\ []MacPoolKept
    /\ [][pc # "idle" => hypervisor_macs' = hypervisor_macs]_vars

\* C32's case: with the MACs of a reused port and one more, the call reused
\* the port and created a second, pinned to the other MAC, and returned
C32_Witness ==
    /\ Returned
    /\ hypervisor_macs = {"m1", "m3"}
    /\ ReusedMacs = {"m1"}
    /\ CreatedMacs = {"m3"}
    /\ available_macs = {}

---------------------------------------------------------------------------
(* The reuse path of allocate_for_instance (lines 234-248 with             *)
(* _populate_quantum_extension_values, lines 322-329).                     *)

\* the fields of a port the reuse path may write
BindingFields == {"device_id", "device_owner", "host_id"}

\* the pre-supplied ports as they were before the call, but for the device
PortsBefore == PrePorts(None)

\* C33.  On the reuse path allocate_for_instance changes only the device
\* id, the device owner and the binding host of the pre-supplied port: its
\* network id, MAC address, fixed IPs and security groups, and every other
\* field, stay as they were, also when the call asked for security groups
\* or for a fixed IP on the port's network, and also after a rollback.
C33_ReuseWritesBindingOnly ==
    \A p \in Range(touched_port_ids) :
       /\ p \in DOMAIN remote_ports
       /\ DOMAIN remote_ports[p] = DOMAIN PortsBefore[p]
       /\ \A f \in DOMAIN remote_ports[p] \ BindingFields :
             remote_ports[p][f] = PortsBefore[p][f]

\* C33's case: the call asked for security groups and for a fixed IP on
\* the network of the pre-supplied port P1, rebound P1 to the instance and
\* returned
C33_Witness ==
    /\ Returned
    /\ touched_port_ids = << "P1" >>
    /\ security_group_ids # << >>
    /\ Get(fixed_ips, "n1") # None
    /\ remote_ports["P1"].device_id = instance.uuid
    /\ remote_ports["P1"].device_owner = "compute:nova"

---------------------------------------------------------------------------
(* add_fixed_ip_to_instance (lines 394-428).                               *)

\* the most fixed IPs a port has before a call
MaxFixed == 2

\* the subnets of the networks, as list_subnets(network_id=...) returns
\* them (line 399); n4 has none
SubnetsOf(network_id) ==
    CASE network_id = "n1" -> {"s1", "s2"}
      [] network_id = "n3" -> {"s3"}
      [] OTHER -> {}

\* the entry {'subnet_id': id} of line 413, and with it the address the
\* remote service gives the port on that subnet
SubnetEntry(subnet) == "subnet:" \o subnet

\* the instance's ports: a1 and a2 on n1, a2 of the instance or not, a3 on
\* n3 with or without the owner tag of the instance's zone
FixedIpPorts ==
    { [ a1 |-> AssocPort("n1", "m1", "A", "compute:nova", ips1),
        a2 |-> AssocPort("n1", "m2", d, "compute:nova", << >>),
        a3 |-> AssocPort("n3", "m3", "A", owner, << "ipB" >>) ] :
        ips1 \in { << >>, << "ipA" >> },
        d \in {"A", "B"},
        owner \in {"compute:nova", "compute:other"} }

\* list_ports(device_id=, device_owner=, network_id=) (lines 405-409), in
\* any order
ListNetworkPorts(rports, inst, network_id) ==
    Perms({ p \in DOMAIN rports :
              /\ rports[p].device_id = inst.uuid
              /\ rports[p].device_owner = Zone(inst)
              /\ rports[p].network_id = network_id })

\* the attempts of the loops of lines 410-411 in order: each port with each
\* subnet
RECURSIVE FixedIpAttempts(_, _)
FixedIpAttempts(listing, ipam_subnets) ==
    IF listing = << >> THEN << >>
    ELSE [i \in DOMAIN ipam_subnets |->
             [port |-> Head(listing), subnet |-> ipam_subnets[i]]]
         \o FixedIpAttempts(Tail(listing), ipam_subnets)

\* lines 410-425 from attempt i on, the first `failing` attempts failing:
\* lists holds p['fixed_ips'] of each listed port, which line 413 appends
\* to in place; the first update that succeeds ends the call
RECURSIVE AddFixedIpFrom(_, _, _, _, _, _)
AddFixedIpFrom(attempts, i, failing, lists, rports, issued) ==
    IF i > Len(attempts)
    THEN [err |-> "NetworkNotFoundForInstance", ports |-> rports,
          calls |-> issued]
    ELSE LET a == attempts[i]
             fixed == Append(lists[a.port], SubnetEntry(a.subnet))
             body == "fixed_ips" :> fixed
         IN  IF i > failing
             THEN [err |-> None,
                   ports |-> UpdatePort(rports, a.port, body),
                   calls |-> Append(issued,
                                [port |-> a.port, fixed_ips |-> fixed,
                                 ok |-> TRUE])]
             ELSE AddFixedIpFrom(attempts, i + 1, failing,
                      [lists EXCEPT ![a.port] = fixed], rports,
                      Append(issued,
                             [port |-> a.port, fixed_ips |-> fixed,
                              ok |-> FALSE]))

\* add_fixed_ip_to_instance(instance, network_id)
AddFixedIp(rports, inst, network_id, ipam_subnets, listing, failing) ==
    IF ipam_subnets = << >>
    THEN [err |-> "NetworkNotFoundForInstance", ports |-> rports,
          calls |-> << >>]
    ELSE AddFixedIpFrom(FixedIpAttempts(listing, ipam_subnets), 1, failing,
                        [p \in Range(listing) |-> rports[p].fixed_ips],
                        rports, << >>)

\* one call of add_fixed_ip_to_instance: list_subnets or list_ports may
\* fail, and any number of the first updates.  The refresh_cache decorator
\* of line 394 is nova.network.api's; what it stores after the call is left
\* out, and the instance's cache stays as it is here.
AddFixedIpToInstance ==
    /\ \A p \in DOMAIN remote_ports :
          Len(remote_ports[p].fixed_ips) <= MaxFixed
    /\ \E network_id \in {"n1", "n3", "n4"} :
          \/ \E ipam_subnets \in Perms(SubnetsOf(network_id)),
                listing \in ListNetworkPorts(remote_ports, instance,
                                             network_id) :
                \E failing \in 0..(Len(listing) * Len(ipam_subnets)) :
                   LET out == AddFixedIp(remote_ports, instance, network_id,
                                         ipam_subnets, listing, failing)
                   IN  /\ remote_ports' = out.ports
                       /\ api_call' =
                             [op |-> "add_fixed_ip_to_instance",
                              args |-> << network_id, ipam_subnets,
                                          listing >>,
                              before |-> remote_ports,
                              raised |-> out.err,
                              calls |-> out.calls]
          \/ /\ remote_ports' = remote_ports
             /\ api_call' =
                   [op |-> "add_fixed_ip_to_instance",
                    args |-> << network_id, << >>, << >> >>,
                    before |-> remote_ports,
                    raised |-> "QuantumClientException",
                    calls |-> << >>]
    /\ UNCHANGED << user_security_groups, remote_extensions, extensions,
                    last_quantum_extension_sync, info_cache, inputVars,
                    localVars, pc, result, calls, raised, logged, port_seq,
                    nw_info, lifeVars, extVars, fipVars, notified >>

InitFixedIp ==
    /\ remote_ports \in FixedIpPorts
    /\ info_cache = << >>
    /\ user_security_groups = TenantGroups
    /\ remote_extensions = {}
    /\ extensions = {}
    /\ last_quantum_extension_sync = NeverSynced
    /\ instance = LifeInstance
    /\ requested_networks = << >>
    /\ hypervisor_macs = NoMacs
    /\ security_groups = << >>
    /\ pc = "idle"
    /\ ports = EmptyDict
    /\ fixed_ips = EmptyDict
    /\ net_ids = << >>
    /\ nets = << >>
    /\ security_group_ids = << >>
    /\ available_macs = NoMacs
    /\ touched_port_ids = << >>
    /\ created_port_ids = << >>
    /\ idx = 0
    /\ exc = None
    /\ result = NoResult
    /\ calls = << >>
    /\ raised = None
    /\ logged = 0
    /\ InitRest

NextFixedIp == AddFixedIpToInstance

SpecFixedIp == InitFixedIp /\ [][NextFixedIp]_vars

\* the last call was add_fixed_ip_to_instance and both listings answered
FixedIpAdded ==
    /\ api_call.op = "add_fixed_ip_to_instance"
    /\ api_call.raised # "QuantumClientException"

\* the ports the last call changed
PortsChanged ==
    { p \in DOMAIN remote_ports : remote_ports[p] # api_call.before[p] }

\* the port has one fixed IP more than before the call, on a subnet of the
\* network asked for, and is as it was otherwise
OneFixedIpMore(p) ==
    /\ \E subnet \in Range(api_call.args[2]) :
          remote_ports[p].fixed_ips =
              Append(api_call.before[p].fixed_ips, SubnetEntry(subnet))
    /\ \A f \in DOMAIN remote_ports[p] \ {"fixed_ips"} :
          remote_ports[p][f] = api_call.before[p][f]

\* C34.  add_fixed_ip_to_instance stops at the first update that succeeds,
\* and that update adds exactly one new fixed IP, on one subnet, to exactly
\* one port of the instance on the network, however many earlier attempts
\* failed; when the network has no subnet or every attempt failed it
\* raises NetworkNotFoundForInstance and no port has changed.
C34_AddsOneFixedIp ==
    FixedIpAdded =>
       LET issued == api_call.calls
           succeeded == { i \in DOMAIN issued : issued[i].ok }
       IN  IF succeeded = {}
           THEN /\ api_call.raised = "NetworkNotFoundForInstance"
                /\ PortsChanged = {}
                /\ Len(issued) = Len(api_call.args[2]) * Len(api_call.args[3])
           ELSE /\ api_call.raised = None
                /\ succeeded = {Len(issued)}
                /\ PortsChanged = {issued[Len(issued)].port}
                /\ \A p \in PortsChanged :
                      /\ api_call.before[p].device_id = instance.uuid
                      /\ api_call.before[p].network_id = api_call.args[1]
                      /\ OneFixedIpMore(p)

===========================================================================
